---- MODULE Spec2Model ----
(***************************************************************************)
(* A model of the retrieval / generation orchestration code of tplexity:   *)
(*   retriever/retry_utils.py        retry_with_backoff, is_retryable_error *)
(*   retrieval/rrf.py                RRFRanker.rank                         *)
(*   generation/memory_service.py    MemoryService                          *)
(*   tg_parse/llm_batcher.py         LLMBatcher                             *)
(*   generation/generation_service.py, generation/api/routers.py            *)
(* Each component has its own specification (SpecRetry, SpecRRF,            *)
(* SpecMemory, SpecBatcher, SpecGenerate) over the shared variables.        *)
(***************************************************************************)
EXTENDS Integers, Sequences, FiniteSets, TLC

VARIABLES
    \* ---- retry_with_backoff (one invocation) ----
    rPc,            \* "idle" | "loop" | "returned" | "raised"
    max_retries,    \* argument max_retries
    max_delay,      \* argument max_delay (seconds)
    jitter,         \* argument jitter
    attempt,        \* loop variable of `for attempt in range(max_retries)`
    last_exception, \* local last_exception (an exception id, or "None")
    outcomes,       \* what each invocation of func did, in order
    sleepLog,       \* the delay of each asyncio.sleep, in hundredths of a second
    raised,         \* the exception that left retry_with_backoff, or "None"
    \* ---- RRFRanker.rank (one call) ----
    rrfPc,          \* "idle" | "done"
    rankings,       \* the *rankings argument: a sequence of ranked lists
    sorted_results, \* the returned list of <<doc_id, rrf_score>>
    \* ---- MemoryService over the Redis session store ----
    store,          \* Redis: session -> [present, history] (the decoded JSON value)
    mPc,            \* per caller: "idle" | "write" (add_message) |
                    \* "write_many" (add_messages)
    mArg,           \* per caller: the arguments [session_id, role, content]
    mHistory,       \* per caller: the local variable history
    mMessages,      \* per caller of add_messages: the argument messages
    mTrimmed,       \* the last write to the store dropped entries of its list
    mReadFailed,    \* per caller: get_history caught an exception and gave []
    msgCount,       \* number of add_message calls made so far
    mCleared,       \* the last clear_history with no store write after it
    \* ---- LLMBatcher ----
    cache,          \* self.cache, a dict in insertion order: a sequence of entries
    queue,          \* self.queue: the ids of the enqueued requests, in order
    reqs,           \* every LLMRequest created so far, by id
    cPc,            \* per caller of determine_relevance_days: "idle" | "waiting"
    cReq,           \* per caller: the id of the request it awaits (0: none)
    bPc,            \* _batch_processor: "collect" | "process"
    batch,          \* the batch being processed
    inflight,       \* requests of the batch whose LLM call has not ended
    insertLog,      \* the keys passed to _add_to_cache, in order
    \* ---- POST /generation/generate and GenerationService.generate ----
    gPc,            \* "idle" | "route" | "reformulate" | "retrieve" |
                    \* "relevance" | "generate" | "persist_user" |
                    \* "persist_assistant" | "returned" | "raised" | "handled"
    gRequest,       \* the request: [query, session_id, llm_provider]
    use_retriever,  \* local use_retriever of generate
    routeOutcome,   \* the routing agent's LLM call: "none" | "returned" | "raised"
    reformulated_query, \* local reformulated_query, as characters
    reformOutcome,  \* the reformulation agent's LLM call: "none" | "returned" | "raised"
    gSearchQuery,   \* the query argument of retriever_client.search
    gStages,        \* the stages of the retrieval the run went through, in order
    prompt,         \* what generate builds for the generation model
    ttl,            \* the TTL of each session key, in seconds; 0 without key
    memoryFailed,   \* a Redis command of the run's persistence step failed
    relevance_outcomes,  \* per document: what the relevance agent's call did
                         \* and its place in the order of completion
    raw_documents,  \* local raw_documents
    validated_documents, \* local validated_documents
    relevance_results,   \* local relevance_results of the parallel evaluation
    context_documents,   \* local context_documents
    searched,       \* whether search_time was set (the retriever answered)
    answer,         \* local answer
    gRet,           \* the tuple generate returned (empty: none)
    gErr,           \* the exception that left generate, or "None"
    http,           \* the status of the handler's response (0: none yet)
    gCalls,         \* the calls made for the request, by kind
    store0,         \* the session store when the request arrived
    runs,           \* the number of requests so far
    \* ---- VectorSearch / RetrieverService over the Qdrant collection ----
    vPc,            \* "idle" | "upsert" | "query" | "rerank" | "done" | "raised"
    vOp,            \* the operation: "none" | "add" | "search"
    vArgs,          \* what the operation was called with, after defaulting
    vTopKGiven,     \* the top_k argument of search as given
    points,         \* local points of add_documents
    qdrant,         \* the points stored in the collection
    qdrant0,        \* the collection when the operation started
    uuidNext,       \* the next id uuid4 gives
    vAttempt,       \* loop variable attempt of retry_with_backoff
    remoteCalls,    \* the calls sent to the store by the operation, by kind
    hybrid_results, \* local hybrid_results of RetrieverService.search
    vResult,        \* the list search returned
    vErr,           \* the exception that left the operation, or "None"
    vFailures,      \* the failures of the operation's calls to the store
    vOps            \* the number of operations so far

retryVars == <<rPc, max_retries, max_delay, jitter, attempt, last_exception,
               outcomes, sleepLog, raised>>
rrfVars == <<rrfPc, rankings, sorted_results>>
memVars == <<store, mPc, mArg, mHistory, mMessages, mReadFailed, mTrimmed, msgCount, mCleared>>
batVars == <<cache, queue, reqs, cPc, cReq, bPc, batch, inflight, insertLog>>
memLocals == <<mPc, mArg, mHistory, mMessages, mReadFailed, mTrimmed, msgCount, mCleared>>
genVars == <<gPc, gRequest, use_retriever, routeOutcome, reformulated_query,
             reformOutcome, gSearchQuery, relevance_outcomes, ttl, memoryFailed,
             prompt, gStages,
             raw_documents, validated_documents, relevance_results,
             context_documents, searched, answer, gRet, gErr, http, gCalls,
             store0, runs>>
vsVars == <<vPc, vOp, vArgs, vTopKGiven, points, qdrant, qdrant0, uuidNext,
            vAttempt, remoteCalls, hybrid_results, vResult, vErr, vFailures, vOps>>
vars == <<retryVars, rrfVars, memVars, batVars, genVars, vsVars>>

(***************************************************************************)
(* Strings.  Python's substring test (`a in b`) and str.lower() are        *)
(* modelled on character sequences; Chars gives the characters of the      *)
(* strings the model uses.                                                 *)
(***************************************************************************)
Chars(s) ==
    CASE s = "ConnectionError" -> <<"C", "o", "n", "n", "e", "c", "t", "i", "o", "n", "E", "r", "r", "o", "r">>
      [] s = "TimeoutError" -> <<"T", "i", "m", "e", "o", "u", "t", "E", "r", "r", "o", "r">>
      [] s = "Timeout" -> <<"T", "i", "m", "e", "o", "u", "t">>
      [] s = "ConnectionRefusedError" -> <<"C", "o", "n", "n", "e", "c", "t", "i", "o", "n", "R", "e", "f", "u", "s", "e", "d", "E", "r", "r", "o", "r">>
      [] s = "ConnectionResetError" -> <<"C", "o", "n", "n", "e", "c", "t", "i", "o", "n", "R", "e", "s", "e", "t", "E", "r", "r", "o", "r">>
      [] s = "httpx.ConnectError" -> <<"h", "t", "t", "p", "x", ".", "C", "o", "n", "n", "e", "c", "t", "E", "r", "r", "o", "r">>
      [] s = "httpx.ConnectTimeout" -> <<"h", "t", "t", "p", "x", ".", "C", "o", "n", "n", "e", "c", "t", "T", "i", "m", "e", "o", "u", "t">>
      [] s = "httpx.ReadTimeout" -> <<"h", "t", "t", "p", "x", ".", "R", "e", "a", "d", "T", "i", "m", "e", "o", "u", "t">>
      [] s = "httpx.WriteTimeout" -> <<"h", "t", "t", "p", "x", ".", "W", "r", "i", "t", "e", "T", "i", "m", "e", "o", "u", "t">>
      [] s = "httpx.PoolTimeout" -> <<"h", "t", "t", "p", "x", ".", "P", "o", "o", "l", "T", "i", "m", "e", "o", "u", "t">>
      [] s = "httpx.NetworkError" -> <<"h", "t", "t", "p", "x", ".", "N", "e", "t", "w", "o", "r", "k", "E", "r", "r", "o", "r">>
      [] s = "timeout" -> <<"t", "i", "m", "e", "o", "u", "t">>
      [] s = "connection" -> <<"c", "o", "n", "n", "e", "c", "t", "i", "o", "n">>
      [] s = "network" -> <<"n", "e", "t", "w", "o", "r", "k">>
      [] s = "429" -> <<"4", "2", "9">>
      [] s = "500" -> <<"5", "0", "0">>
      [] s = "502" -> <<"5", "0", "2">>
      [] s = "503" -> <<"5", "0", "3">>
      [] s = "504" -> <<"5", "0", "4">>
      [] s = "HTTPStatusError" -> <<"H", "T", "T", "P", "S", "t", "a", "t", "u", "s", "E", "r", "r", "o", "r">>
      [] s = "ValueError" -> <<"V", "a", "l", "u", "e", "E", "r", "r", "o", "r">>
      [] s = "ReadTimeout" -> <<"R", "e", "a", "d", "T", "i", "m", "e", "o", "u", "t">>
      [] s = "ConnectError" -> <<"C", "o", "n", "n", "e", "c", "t", "E", "r", "r", "o", "r">>
      [] s = "RuntimeError" -> <<"R", "u", "n", "t", "i", "m", "e", "E", "r", "r", "o", "r">>
      [] s = "Bad top_k 500" -> <<"B", "a", "d", " ", "t", "o", "p", "_", "k", " ", "5", "0", "0">>
      [] s = "refused" -> <<"r", "e", "f", "u", "s", "e", "d">>
      [] s = "Not Found" -> <<"N", "o", "t", " ", "F", "o", "u", "n", "d">>
      [] s = "Service Unavailable" -> <<"S", "e", "r", "v", "i", "c", "e", " ", "U", "n", "a", "v", "a", "i", "l", "a", "b", "l", "e">>
      [] s = "empty query" -> <<"e", "m", "p", "t", "y", " ", "q", "u", "e", "r", "y">>
      [] s = "Timed out" -> <<"T", "i", "m", "e", "d", " ", "o", "u", "t">>
      [] s = "All attempts failed" -> <<"A", "l", "l", " ", "a", "t", "t", "e", "m", "p", "t", "s", " ", "f", "a", "i", "l", "e", "d">>
      [] s = "14 days" -> <<"1", "4", " ", "d", "a", "y", "s">>
      [] s = "none" -> <<"n", "o", "n", "e">>
      [] s = "0 days" -> <<"0", " ", "d", "a", "y", "s">>
      [] s = "" -> <<>>
      [] s = "  " -> <<" ", " ">>
      [] s = "rate?" -> <<"r", "a", "t", "e", "?">>
      [] s = " yes" -> <<" ", "y", "e", "s">>
      [] s = "Yes, search" -> <<"Y", "e", "s", ",", " ", "s", "e", "a", "r", "c", "h">>
      [] s = "no" -> <<"n", "o">>
      [] s = "YES" -> <<"Y", "E", "S">>
      [] s = " key rate " -> <<" ", "k", "e", "y", " ", "r", "a", "t", "e", " ">>
      [] s = "Key rate is 16%" -> <<"K", "e", "y", " ", "r", "a", "t", "e", " ", "i", "s", " ", "1", "6", "%">>
      [] s = "Bonds fell 2%." -> <<"B", "o", "n", "d", "s", " ", "f", "e", "l", "l", " ", "2", "%", ".">>
      [] s = "   short    " -> <<" ", " ", " ", "s", "h", "o", "r", "t", " ", " ", " ", " ">>
      [] s = "Unexpected error in retry_with_backoff" -> <<"U", "n", "e", "x", "p", "e", "c", "t", "e", "d", " ", "e", "r", "r", "o", "r", " ", "i", "n", " ", "r", "e", "t", "r", "y", "_", "w", "i", "t", "h", "_", "b", "a", "c", "k", "o", "f", "f">>

UpperCase == <<"A", "B", "C", "D", "E", "F", "G", "H", "I", "J", "K", "L", "M",
               "N", "O", "P", "Q", "R", "S", "T", "U", "V", "W", "X", "Y", "Z">>
LowerCase == <<"a", "b", "c", "d", "e", "f", "g", "h", "i", "j", "k", "l", "m",
               "n", "o", "p", "q", "r", "s", "t", "u", "v", "w", "x", "y", "z">>

\* str.lower() on one character
LowerChar(c) ==
    IF \E i \in 1..Len(UpperCase) : UpperCase[i] = c
    THEN LowerCase[CHOOSE i \in 1..Len(UpperCase) : UpperCase[i] = c]
    ELSE c

\* str.lower()
Lower(cs) == [i \in 1..Len(cs) |-> LowerChar(cs[i])]

\* Python `sub in cs` on strings
Contains(cs, sub) ==
    \E i \in 1..(Len(cs) - Len(sub) + 1) : SubSeq(cs, i, i + Len(sub) - 1) = sub


(***************************************************************************)
(* retriever/retry_utils.py                                                *)
(***************************************************************************)
MaxRetriesBound == 3

\* The exceptions func may raise, by name; Exc gives type(e).__name__, the
\* status_code attribute (the empty set when the exception has none) and str(e).
Exceptions == {"E_conn", "E_503", "E_404", "E_value", "E_value500"}

Exc(e) ==
    CASE e = "E_conn" ->
           [type |-> "ConnectionError", status_code |-> {}, str |-> "refused"]
      [] e = "E_503" ->
           [type |-> "HTTPStatusError", status_code |-> {503},
            str |-> "Service Unavailable"]
      [] e = "E_404" ->
           [type |-> "HTTPStatusError", status_code |-> {404}, str |-> "Not Found"]
      [] e = "E_value" ->
           [type |-> "ValueError", status_code |-> {}, str |-> "empty query"]
      [] e = "E_value500" ->
           [type |-> "ValueError", status_code |-> {}, str |-> "Bad top_k 500"]
      [] e = "E_runtime" ->
           [type |-> "RuntimeError", status_code |-> {},
            str |-> "Unexpected error in retry_with_backoff"]
      [] OTHER ->
           [type |-> e, status_code |-> {}, str |-> e]

retryable_errors ==
    {"ConnectionError", "TimeoutError", "Timeout", "ConnectionRefusedError",
     "ConnectionResetError", "httpx.ConnectError", "httpx.ConnectTimeout",
     "httpx.ReadTimeout", "httpx.WriteTimeout", "httpx.PoolTimeout",
     "httpx.NetworkError"}

retryable_http_statuses == {429, 500, 502, 503, 504}

retryable_substrings ==
    {"timeout", "connection", "network", "429", "500", "502", "503", "504"}

is_retryable_error(e) ==
    LET error_type == Chars(Exc(e).type)
        error_str == Lower(Chars(Exc(e).str))
    IN  \/ \E r \in retryable_errors : Contains(error_type, Chars(r))
        \/ \E s \in Exc(e).status_code : s \in retryable_http_statuses
        \/ \E r \in retryable_substrings : Contains(error_str, Chars(r))

\* line 110: `if not is_retryable_error(e): raise`
PropagatesAtOnce_never(e) == FALSE
PropagatesAtOnce(e) == ~is_retryable_error(e)

\* line 117: `if attempt == max_retries - 1`
IsLastAttempt_offByOne(a, n) == a = n
IsLastAttempt(a, n) == a = n - 1

\* lines 114, 121: a bare `raise` re-raises the exception being handled
Reraise_tagged(e) == "RetriesExhaustedError"
Reraise(e) == e

initial_delay == 1
exponential_base == 2
\* the max_delay arguments of the model's calls (60 is the default)
MaxDelays == {1, 60}
\* the values random.random() takes in the model, in hundredths
RandomSamples == {0, 50, 99}

RECURSIVE Pow(_, _)
Pow(b, n) == IF n = 0 THEN 1 ELSE b * Pow(b, n - 1)

Min(a, b) == IF a <= b THEN a ELSE b

BackoffDelay_uncapped(a, md, jit, r) ==
    LET delay == initial_delay * 100 * Pow(exponential_base, a)
        jitter_amount == (delay * 25 * r) \div 10000
    IN  IF jit THEN delay + jitter_amount ELSE delay

\* lines 124-129, in hundredths of a second; r is random.random() in hundredths
BackoffDelay(a, md, jit, r) ==
    LET delay == Min(initial_delay * 100 * Pow(exponential_base, a), md * 100)
        jitter_amount == (delay * 25 * r) \div 10000
    IN  IF jit THEN delay + jitter_amount ELSE delay

RetryInit ==
    /\ rPc = "idle"
    /\ max_retries = 0
    /\ max_delay = 60
    /\ jitter = TRUE
    /\ attempt = 0
    /\ last_exception = "None"
    /\ outcomes = << >>
    /\ sleepLog = << >>
    /\ raised = "None"

\* a call retry_with_backoff(func, max_retries=n, max_delay=md, jitter=jit)
RetryStart(n, md, jit) ==
    /\ rPc = "idle"
    /\ rPc' = "loop"
    /\ max_retries' = n
    /\ max_delay' = md
    /\ jitter' = jit
    /\ UNCHANGED <<attempt, last_exception, outcomes, sleepLog, raised>>

\* one loop iteration in which func returns (line 105)
FuncReturns ==
    /\ rPc = "loop"
    /\ attempt < max_retries
    /\ outcomes' = Append(outcomes, "ok")
    /\ rPc' = "returned"
    /\ UNCHANGED <<max_retries, max_delay, jitter, attempt, last_exception,
                   sleepLog, raised>>

\* one loop iteration in which func raises e (lines 106-136)
FuncRaises(e, r) ==
    /\ rPc = "loop"
    /\ attempt < max_retries
    /\ outcomes' = Append(outcomes, e)
    /\ last_exception' = e
    /\ IF PropagatesAtOnce(e) \/ IsLastAttempt(attempt, max_retries)
       THEN /\ raised' = Reraise(e)
            /\ rPc' = "raised"
            /\ UNCHANGED <<attempt, sleepLog>>
       ELSE /\ sleepLog' = Append(sleepLog,
                                  BackoffDelay(attempt, max_delay, jitter, r))
            /\ attempt' = attempt + 1
            /\ UNCHANGED <<rPc, raised>>
    /\ UNCHANGED <<max_retries, max_delay, jitter>>

\* the loop ends without a return or a raise (lines 138-142)
RetryLoopEnds ==
    /\ rPc = "loop"
    /\ attempt >= max_retries
    /\ raised' = IF last_exception # "None" THEN last_exception ELSE "E_runtime"
    /\ rPc' = "raised"
    /\ UNCHANGED <<max_retries, max_delay, jitter, attempt, last_exception,
                   outcomes, sleepLog>>

RetryNext ==
    \/ \E n \in 0..MaxRetriesBound, md \in MaxDelays, jit \in BOOLEAN :
          RetryStart(n, md, jit) /\ UNCHANGED <<rrfVars, memVars, batVars, genVars, vsVars>>
    \/ FuncReturns /\ UNCHANGED <<rrfVars, memVars, batVars, genVars, vsVars>>
    \/ \E e \in Exceptions, r \in RandomSamples :
          FuncRaises(e, r) /\ UNCHANGED <<rrfVars, memVars, batVars, genVars, vsVars>>
    \/ RetryLoopEnds /\ UNCHANGED <<rrfVars, memVars, batVars, genVars, vsVars>>

(***************************************************************************)
(* retrieval/rrf.py                                                        *)
(***************************************************************************)
MaxLists == 2
MaxRankLen == 3
DocIds == {1, 2, 3}

\* RRFRanker.__init__: k = 60
k == 60

\* enumerate(ranking, start=1)
EnumerateStart_zero == 1 - 1
EnumerateStart == 1

\* Scores are fractions; the model holds them as numerators over ScoreDen, the
\* product of the denominators k + rank that can occur, so that sums are exact.
RECURSIVE DenUpTo(_)
DenUpTo(n) == IF n = 0 THEN 1 ELSE (k + n) * DenUpTo(n - 1)
ScoreDen == k * DenUpTo(MaxRankLen)

\* 1.0 / (self.k + rank), as a numerator over ScoreDen
Reciprocal(rank) == ScoreDen \div (k + rank)

\* rrf_scores[doc_id] += c on a dict held in insertion order
AddScore(scores, doc_id, c) ==
    IF \E i \in 1..Len(scores) : scores[i][1] = doc_id
    THEN [i \in 1..Len(scores) |->
            IF scores[i][1] = doc_id THEN <<doc_id, scores[i][2] + c>>
            ELSE scores[i]]
    ELSE Append(scores, <<doc_id, c>>)

\* lines 35-41 for one ranking: items i..Len(ranking)
RECURSIVE AddRanking(_, _, _)
AddRanking(scores, ranking, i) ==
    IF i > Len(ranking) THEN scores
    ELSE AddRanking(AddScore(scores, ranking[i],
                             Reciprocal(EnumerateStart + i - 1)),
                    ranking, i + 1)

\* lines 33-41: all rankings, in order
RECURSIVE AddRankings(_, _, _)
AddRankings(scores, rs, j) ==
    IF j > Len(rs) THEN scores
    ELSE AddRankings(AddRanking(scores, rs[j], 1), rs, j + 1)

\* insertion of x into a list sorted by descending score, after its equals
RECURSIVE InsertDesc(_, _)
InsertDesc(s, x) ==
    IF s = << >> THEN <<x>>
    ELSE IF s[1][2] >= x[2] THEN <<s[1]>> \o InsertDesc(Tail(s), x)
    ELSE <<x>> \o s

\* sorted(items, key=lambda x: x[1], reverse=True): stable
RECURSIVE SortedDesc(_, _)
SortedDesc(items, n) ==
    IF n = 0 THEN << >> ELSE InsertDesc(SortedDesc(items, n - 1), items[n])

\* RRFRanker.rank(*rankings)
rank(rs) ==
    LET rrf_scores == AddRankings(<< >>, rs, 1)
    IN  SortedDesc(rrf_scores, Len(rrf_scores))

RECURSIVE SeqsUpTo(_, _)
SeqsUpTo(S, n) ==
    IF n = 0 THEN {<< >>}
    ELSE LET shorter == SeqsUpTo(S, n - 1)
         IN  shorter \cup {Append(s, x) : s \in shorter, x \in S}

RRFInit ==
    /\ rrfPc = "idle"
    /\ rankings = << >>
    /\ sorted_results = << >>

\* a call rank(*rs); each item of a ranking is (doc_id, score), and the score
\* is discarded at line 36, so a ranking is modelled as its doc ids in order
RRFRank(rs) ==
    /\ rrfPc = "idle"
    /\ rankings' = rs
    /\ sorted_results' = rank(rs)
    /\ rrfPc' = "done"

RRFNext ==
    \E rs \in SeqsUpTo(SeqsUpTo(DocIds, MaxRankLen), MaxLists) :
        RRFRank(rs) /\ UNCHANGED <<retryVars, memVars, batVars, genVars, vsVars>>

(***************************************************************************)
(* generation/memory_service.py                                            *)
(***************************************************************************)
\* settings.max_history_messages (config.py:22, default 10), scaled down
max_history_messages == 2
\* the number of add_message calls in a behaviour
MaxAppends == 5

Sessions == {"s1"}
Callers == {"p1", "p2"}
Roles == {"system", "user", "assistant"}

\* the roles of the messages of the model's add_messages calls
MessageRoles == {<<"user", "assistant">>, <<"system", "user">>}

NoArg == [session_id |-> "s1", role |-> "user", content |-> 0]

\* get_history: the stored list, or [] when the key is absent or when the
\* read fails (redis error or JSONDecodeError, lines 71-76)
get_history(session_id, readOk) ==
    IF readOk /\ store[session_id].present
    THEN store[session_id].history
    ELSE << >>

FirstN(history, n) == SubSeq(history, 1, n)

\* Python history[-n:] for n >= 1
LastN(history, n) ==
    IF Len(history) <= n THEN history
    ELSE SubSeq(history, Len(history) - n + 1, Len(history))

\* line 100: `if len(history) > settings.max_history_messages + 1`
OverLimit(history) == Len(history) > max_history_messages + 1

\* lines 100-109
Trim(history) ==
    IF OverLimit(history)
    THEN IF history[1].role = "system"
         THEN <<history[1]>> \o LastN(history, max_history_messages)
         ELSE LastN(history, max_history_messages)
    ELSE history

\* no clear_history has completed since the last write to the store
NoClear == [session_id |-> "None", deleted |-> FALSE, before |-> << >>,
            existed |-> FALSE]

\* redis DELETE (line 177): the key is removed
Delete_keep(st, session_id) == st
Delete(st, session_id) ==
    [st EXCEPT ![session_id] = [present |-> FALSE, history |-> << >>]]

MemInit ==
    /\ store = [s \in Sessions |-> [present |-> FALSE, history |-> << >>]]
    /\ mCleared = NoClear
    /\ mPc = [p \in Callers |-> "idle"]
    /\ mArg = [p \in Callers |-> NoArg]
    /\ mHistory = [p \in Callers |-> << >>]
    /\ mReadFailed = [p \in Callers |-> FALSE]
    /\ mMessages = [p \in Callers |-> << >>]
    /\ mTrimmed = FALSE
    /\ msgCount = 0

\* add_message up to its first await on the store: `history = await
\* self.get_history(session_id)` (lines 87-93); the content of the message is
\* the number of the call
AddMessageRead(p, session_id, role, readOk) ==
    /\ mPc[p] = "idle"
    /\ msgCount < MaxAppends
    /\ msgCount' = msgCount + 1
    /\ mArg' = [mArg EXCEPT ![p] = [session_id |-> session_id, role |-> role,
                                    content |-> msgCount + 1]]
    /\ mHistory' = [mHistory EXCEPT ![p] = get_history(session_id, readOk)]
    /\ mReadFailed' = [mReadFailed EXCEPT ![p] = ~readOk]
    /\ mPc' = [mPc EXCEPT ![p] = "write"]
    /\ UNCHANGED <<store, mCleared, mMessages, mTrimmed>>

\* add_message from the append to the setex (lines 96-122); a failing setex
\* is logged and swallowed
AddMessageWrite(p, writeOk) ==
    /\ mPc[p] = "write"
    /\ LET appended == Append(mHistory[p],
                              [role |-> mArg[p].role, content |-> mArg[p].content])
           history == Trim(appended)
       IN  /\ store' = IF writeOk
                       THEN [store EXCEPT ![mArg[p].session_id] =
                                [present |-> TRUE, history |-> history]]
                       ELSE store
           /\ mTrimmed' = IF writeOk THEN Len(history) < Len(appended)
                          ELSE mTrimmed
    /\ mCleared' = IF writeOk THEN NoClear ELSE mCleared
    /\ mPc' = [mPc EXCEPT ![p] = "idle"]
    /\ mArg' = [mArg EXCEPT ![p] = NoArg]
    /\ mHistory' = [mHistory EXCEPT ![p] = << >>]
    /\ UNCHANGED <<msgCount, mReadFailed, mMessages>>

\* add_messages up to its first await on the store (lines 132-138); the
\* messages have the given roles and the numbers of the next calls as content
AddMessagesRead(p, session_id, roles, readOk) ==
    /\ mPc[p] = "idle"
    /\ msgCount + Len(roles) <= MaxAppends
    /\ msgCount' = msgCount + Len(roles)
    /\ mArg' = [mArg EXCEPT ![p] = [NoArg EXCEPT !.session_id = session_id]]
    /\ mMessages' = [mMessages EXCEPT
                        ![p] = [i \in 1..Len(roles) |->
                                   [role |-> roles[i], content |-> msgCount + i]]]
    /\ mHistory' = [mHistory EXCEPT ![p] = get_history(session_id, readOk)]
    /\ mReadFailed' = [mReadFailed EXCEPT ![p] = ~readOk]
    /\ mPc' = [mPc EXCEPT ![p] = "write_many"]
    /\ UNCHANGED <<store, mCleared, mTrimmed>>

\* add_messages from the extend to the setex (lines 141-162); a failing
\* setex is logged and swallowed
AddMessagesWrite(p, writeOk) ==
    /\ mPc[p] = "write_many"
    /\ LET extended == mHistory[p] \o mMessages[p]
           history == Trim(extended)
       IN  /\ store' = IF writeOk
                       THEN [store EXCEPT ![mArg[p].session_id] =
                                [present |-> TRUE, history |-> history]]
                       ELSE store
           /\ mTrimmed' = IF writeOk THEN Len(history) < Len(extended)
                          ELSE mTrimmed
    /\ mCleared' = IF writeOk THEN NoClear ELSE mCleared
    /\ mPc' = [mPc EXCEPT ![p] = "idle"]
    /\ mArg' = [mArg EXCEPT ![p] = NoArg]
    /\ mHistory' = [mHistory EXCEPT ![p] = << >>]
    /\ mMessages' = [mMessages EXCEPT ![p] = << >>]
    /\ UNCHANGED <<msgCount, mReadFailed>>

\* clear_history (lines 164-181), which GenerationService.clear_session
\* (generation_service.py lines 681-688) calls: one DELETE on the store; a
\* failing DELETE is logged and swallowed (lines 180-181)
ClearHistory(session_id, deleteOk) ==
    /\ store' = IF deleteOk THEN Delete(store, session_id) ELSE store
    /\ mCleared' = [session_id |-> session_id, deleted |-> deleteOk,
                    before |-> store[session_id].history,
                    existed |-> store[session_id].present]
    /\ mTrimmed' = (mTrimmed /\ ~deleteOk)
    /\ UNCHANGED <<mPc, mArg, mHistory, mMessages, mReadFailed, msgCount>>

MemNext ==
    \/ \E s \in Sessions, ok \in BOOLEAN :
          ClearHistory(s, ok) /\ UNCHANGED <<retryVars, rrfVars, batVars, genVars, vsVars>>
    \/ \E p \in Callers, s \in Sessions, r \in Roles, ok \in BOOLEAN :
          AddMessageRead(p, s, r, ok) /\ UNCHANGED <<retryVars, rrfVars, batVars, genVars, vsVars>>
    \/ \E p \in Callers, ok \in BOOLEAN :
          AddMessageWrite(p, ok) /\ UNCHANGED <<retryVars, rrfVars, batVars, genVars, vsVars>>
    \/ \E p \in Callers, s \in Sessions, rs \in MessageRoles, ok \in BOOLEAN :
          AddMessagesRead(p, s, rs, ok) /\ UNCHANGED <<retryVars, rrfVars, batVars, genVars, vsVars>>
    \/ \E p \in Callers, ok \in BOOLEAN :
          AddMessagesWrite(p, ok) /\ UNCHANGED <<retryVars, rrfVars, batVars, genVars, vsVars>>

(***************************************************************************)
(* tg_parse/llm_batcher.py                                                 *)
(***************************************************************************)
\* LLMBatcher(batch_size=5, max_cache_size=1000), scaled down
batch_size == 2
max_cache_size == 2
\* the number of LLMRequests created in a behaviour
MaxRequests == 3

BatchCallers == {"c1", "c2"}
Providers == {"qwen", "deepseek"}
\* the (llm_provider, post_text) arguments of the model's calls
CallInputs == {<<"None", "t1">>, <<"qwen", "t2">>, <<"deepseek", "t1">>}
default_llm_provider == "qwen"
\* the raw responses of the LLM in the model
Responses == {"14 days", "none"}

\* line 110: `provider = llm_provider or self.default_llm_provider`
ResolveProvider(llm_provider) ==
    IF llm_provider = "None" THEN default_llm_provider ELSE llm_provider

\* line 113: f"{provider}:{md5(post_text)}"; md5 is injective on the texts
CacheKey(provider, post_text) == <<provider, post_text>>

DigitChars == <<"0", "1", "2", "3", "4", "5", "6", "7", "8", "9">>
IsDigit(c) == \E d \in 1..10 : DigitChars[d] = c
DigitValue(c) == (CHOOSE d \in 1..10 : DigitChars[d] = c) - 1

\* lines 272-277: the first run of digits of the response
RECURSIVE FirstDigits(_, _, _)
FirstDigits(response, i, digits) ==
    IF i > Len(response) THEN digits
    ELSE IF IsDigit(response[i])
         THEN FirstDigits(response, i + 1, Append(digits, response[i]))
         ELSE IF digits # << >> THEN digits
              ELSE FirstDigits(response, i + 1, digits)

RECURSIVE ToInt(_, _)
ToInt(digits, n) ==
    IF n = 0 THEN 0 ELSE 10 * ToInt(digits, n - 1) + DigitValue(digits[n])

Max(a, b) == IF a >= b THEN a ELSE b

\* lines 271-288: relevance_days from the raw response
ParseDays(raw_response) ==
    LET digits == FirstDigits(Chars(raw_response), 1, << >>)
    IN  IF digits = << >> THEN 30
        ELSE Max(1, Min(10000, ToInt(digits, Len(digits))))

NoValue == [days |-> 0, raw |-> "None"]
TimeoutValue == [days |-> 30, raw |-> "TIMEOUT"]
ErrorValue == [days |-> 30, raw |-> "ERROR"]

CachedKeys == {cache[i].key : i \in 1..Len(cache)}
CacheValue(key) == cache[CHOOSE i \in 1..Len(cache) : cache[i].key = key].value

\* line 320: `oldest_key = next(iter(self.cache))`
OldestIndex_last(c) == Len(c)
OldestIndex(c) == 1

RemoveAt(s, i) == SubSeq(s, 1, i - 1) \o SubSeq(s, i + 1, Len(s))

\* _add_to_cache (lines 318-323); stamp is the number of the insertion that
\* created the entry (an assignment to a key already present keeps the entry)
add_to_cache(c, key, value, stamp) ==
    LET kept == IF Len(c) >= max_cache_size THEN RemoveAt(c, OldestIndex(c)) ELSE c
    IN  IF \E i \in 1..Len(kept) : kept[i].key = key
        THEN [i \in 1..Len(kept) |->
                IF kept[i].key = key THEN [kept[i] EXCEPT !.value = value]
                ELSE kept[i]]
        ELSE Append(kept, [key |-> key, value |-> value, stamp |-> stamp])

\* `request.future.done()` (lines 240, 291 and 305)
FutureDone_never(request) == FALSE
FutureDone(request) == request.fut # "pending"

\* `if not request.future.done(): request.future.set_result(value)`
SetResult(request, value) ==
    IF FutureDone(request) THEN request
    ELSE [request EXCEPT !.fut = "result", !.value = value,
                         !.completions = @ + 1]

\* `if not request.future.done(): request.future.set_exception(e)`
SetException(request) ==
    IF FutureDone(request) THEN request
    ELSE [request EXCEPT !.fut = "exception", !.completions = @ + 1]

\* the except of _process_single_request (lines 299-306) is local to the
\* task of one request: the requests it gives the default value to
FailureScope_batch(r, tasks) == tasks
FailureScope(r, tasks) == {r}

\* lines 229-232: one _process_single_request task per request of the partition
SingleRequestTasks_perKey(requests) ==
    {r \in requests : \A q \in requests : reqs[q].key = reqs[r].key => r <= q}
SingleRequestTasks(requests) == requests

\* lines 139-154: what _batch_processor does after a batch, in which a
\* provider lookup or an LLM call raised or not: the exceptions stay in the
\* tasks of the gathers (lines 213, 234) and the loop takes the next batch
ProcessorAfterBatch_stops(raisedInBatch) ==
    IF raisedInBatch THEN "stopped" ELSE "collect"
ProcessorAfterBatch(raisedInBatch) == "collect"

BatInit ==
    /\ cache = << >>
    /\ queue = << >>
    /\ reqs = << >>
    /\ cPc = [c \in BatchCallers |-> "idle"]
    /\ cReq = [c \in BatchCallers |-> 0]
    /\ bPc = "collect"
    /\ batch = << >>
    /\ inflight = {}
    /\ insertLog = << >>

\* determine_relevance_days up to its await on the future (lines 110-127)
Call(c, llm_provider, post_text) ==
    LET cache_key == CacheKey(ResolveProvider(llm_provider), post_text)
    IN  /\ cPc[c] = "idle"
        /\ IF cache_key \in CachedKeys
           THEN \* lines 115-117: returns CacheValue(cache_key)
                UNCHANGED <<cache, queue, reqs, cPc, cReq>>
           ELSE /\ Len(reqs) < MaxRequests
                /\ reqs' = Append(reqs,
                     [key |-> cache_key, fut |-> "pending", value |-> NoValue,
                      called |-> FALSE, failed |-> FALSE,
                      completions |-> 0, outcome |-> "no call",
                      overlap |-> {q \in 1..Len(reqs) :
                                     /\ reqs[q].key = cache_key
                                     /\ reqs[q].fut = "pending"}])
                /\ queue' = Append(queue, Len(reqs) + 1)
                /\ cPc' = [cPc EXCEPT ![c] = "waiting"]
                /\ cReq' = [cReq EXCEPT ![c] = Len(reqs) + 1]
                /\ UNCHANGED cache
        /\ UNCHANGED <<bPc, batch, inflight, insertLog>>

\* the future has a result: lines 127-130
ResumeWithResult(c) ==
    LET r == cReq[c]
    IN  /\ cPc[c] = "waiting"
        /\ reqs[r].fut = "result"
        /\ cache' = add_to_cache(cache, reqs[r].key, reqs[r].value,
                                 Len(insertLog) + 1)
        /\ insertLog' = Append(insertLog, reqs[r].key)
        /\ cPc' = [cPc EXCEPT ![c] = "idle"]
        /\ cReq' = [cReq EXCEPT ![c] = 0]
        /\ UNCHANGED <<queue, reqs, bPc, batch, inflight>>

\* the future has an exception: wait_for re-raises it, and
\* determine_relevance_days catches only asyncio.TimeoutError
ResumeWithException(c) ==
    LET r == cReq[c]
    IN  /\ cPc[c] = "waiting"
        /\ reqs[r].fut = "exception"
        /\ cPc' = [cPc EXCEPT ![c] = "idle"]
        /\ cReq' = [cReq EXCEPT ![c] = 0]
        /\ UNCHANGED <<cache, queue, reqs, bPc, batch, inflight, insertLog>>

\* 30 s pass with the future still pending: wait_for cancels the future and
\* raises TimeoutError (lines 131-134)
CallerTimeout(c) ==
    LET r == cReq[c]
    IN  /\ cPc[c] = "waiting"
        /\ reqs[r].fut = "pending"
        /\ reqs' = [reqs EXCEPT ![r].fut = "cancelled",
                                ![r].completions = @ + 1]
        /\ cPc' = [cPc EXCEPT ![c] = "idle"]
        /\ cReq' = [cReq EXCEPT ![c] = 0]
        /\ UNCHANGED <<cache, queue, bPc, batch, inflight, insertLog>>

\* _collect_batch, then _process_batch up to the awaits on the LLM calls
\* (lines 143-149, 165-187, 196-232): the batch is the first batch_size items
\* of the queue; get_llm raises for the providers in unreachable, and every
\* request of such a partition gets the exception (lines 236-241); for the
\* other partitions one LLM call per task is started
CollectAndDispatch(unreachable) ==
    /\ bPc = "collect"
    /\ queue # << >>
    /\ LET n == Min(batch_size, Len(queue))
           ids == {queue[i] : i \in 1..n}
           lost == {r \in ids : reqs[r].key[1] \in unreachable}
           tasks == UNION {SingleRequestTasks(
                               {r \in ids \ lost : reqs[r].key[1] = pr})
                           : pr \in Providers}
       IN  /\ unreachable \subseteq {reqs[r].key[1] : r \in ids}
           /\ batch' = SubSeq(queue, 1, n)
           /\ queue' = SubSeq(queue, n + 1, Len(queue))
           /\ reqs' = [r \in 1..Len(reqs) |->
                 IF r \in lost
                 THEN [SetException(reqs[r]) EXCEPT !.failed = TRUE]
                 ELSE IF r \in tasks
                 THEN [reqs[r] EXCEPT !.called = TRUE]
                 ELSE reqs[r]]
           /\ inflight' = tasks
    /\ bPc' = "process"
    /\ UNCHANGED <<cache, cPc, cReq, insertLog>>

\* llm_client.generate returns raw_response for request r (lines 264-292)
LLMReturns(r, raw_response) ==
    /\ bPc = "process"
    /\ r \in inflight
    /\ inflight' = inflight \ {r}
    /\ reqs' = [reqs EXCEPT ![r] =
                  [SetResult(reqs[r], [days |-> ParseDays(raw_response),
                                       raw |-> raw_response])
                     EXCEPT !.outcome = raw_response]]
    /\ UNCHANGED <<cache, queue, cPc, cReq, bPc, batch, insertLog>>

\* llm_client.generate raises for request r (lines 299-306)
LLMRaises(r) ==
    /\ bPc = "process"
    /\ r \in inflight
    /\ inflight' = inflight \ FailureScope(r, inflight)
    /\ reqs' = [q \in 1..Len(reqs) |->
                  IF q = r THEN [SetResult(reqs[q], ErrorValue)
                                   EXCEPT !.outcome = "raised"]
                  ELSE IF q \in FailureScope(r, inflight)
                  THEN SetResult(reqs[q], ErrorValue)
                  ELSE reqs[q]]
    /\ UNCHANGED <<cache, queue, cPc, cReq, bPc, batch, insertLog>>

\* asyncio.gather of _process_batch returns (line 213); the loop goes on
BatchDone ==
    /\ bPc = "process"
    /\ inflight = {}
    /\ batch' = << >>
    /\ bPc' = ProcessorAfterBatch(\E i \in 1..Len(batch) :
                                     \/ reqs[batch[i]].failed
                                     \/ reqs[batch[i]].outcome = "raised")
    /\ UNCHANGED <<cache, queue, reqs, cPc, cReq, inflight, insertLog>>

BatNext ==
    \/ \E c \in BatchCallers, in \in CallInputs :
          Call(c, in[1], in[2]) /\ UNCHANGED <<retryVars, rrfVars, memVars, genVars, vsVars>>
    \/ \E c \in BatchCallers :
          ResumeWithResult(c) /\ UNCHANGED <<retryVars, rrfVars, memVars, genVars, vsVars>>
    \/ \E c \in BatchCallers :
          ResumeWithException(c) /\ UNCHANGED <<retryVars, rrfVars, memVars, genVars, vsVars>>
    \/ \E c \in BatchCallers :
          CallerTimeout(c) /\ UNCHANGED <<retryVars, rrfVars, memVars, genVars, vsVars>>
    \/ \E u \in SUBSET Providers :
          CollectAndDispatch(u) /\ UNCHANGED <<retryVars, rrfVars, memVars, genVars, vsVars>>
    \/ \E r \in 1..Len(reqs), raw \in Responses :
          LLMReturns(r, raw) /\ UNCHANGED <<retryVars, rrfVars, memVars, genVars, vsVars>>
    \/ \E r \in 1..Len(reqs) :
          LLMRaises(r) /\ UNCHANGED <<retryVars, rrfVars, memVars, genVars, vsVars>>
    \/ BatchDone /\ UNCHANGED <<retryVars, rrfVars, memVars, genVars, vsVars>>

(***************************************************************************)
(* generation/generation_service.py and generation/api/routers.py          *)
(*                                                                         *)
(* One POST /generation/generate request at a time: the handler calls      *)
(* GenerationService.generate, which runs the routing agent, the           *)
(* reformulation agent, the retriever search, the validation, the          *)
(* relevance agent (one call per document, in parallel), the generation    *)
(* model and the two add_message calls on the session store.               *)
(***************************************************************************)
\* the number of requests in a behaviour
MaxRuns == 2
\* the length of the list the retriever returns
MaxDocs == 2

Queries == {"", "  ", "rate?"}
SessionIds == {"None", "s1"}
RequestProviders == {"None", "gemini"}

\* llm_client/client.py: the providers get_llm knows
KnownProviders == {"qwen", "yandexgpt", "chatgpt", "deepseek"}
\* settings.llm_provider (config.py) and the provider of the helper agents
llm_provider_setting == "deepseek"
router_llm_provider == "qwen"

\* what the routing agent's and the relevance agent's model may answer
Decisions == {" yes", "Yes, search", "no"}
\* what the reformulation agent's model may answer
Reformulations == {" key rate "}
\* what the generation model may answer
Answers == {"a1"}

\* the documents the retriever may return: score in hundredths
Documents ==
    { [doc_id |-> "d1", score |-> 90,  text |-> "Key rate is 16%", metadata |-> "m1"],
      [doc_id |-> "d2", score |-> -10, text |-> "Bonds fell 2%.",  metadata |-> "m2"],
      [doc_id |-> "d3", score |-> 40,  text |-> "",                metadata |-> "m3"],
      [doc_id |-> "d4", score |-> 70,  text |-> "   short    ",    metadata |-> "m4"],
      [doc_id |-> "d5", score |-> 0,   text |-> "Bonds fell 2%.",  metadata |-> "m5"] }

\* the lists of distinct documents of length at most n
DocLists(n) ==
    UNION { { s \in [1..m -> Documents] : \A i, j \in 1..m : i # j => s[i] # s[j] }
            : m \in 0..n }

\* the errors the retriever client lets through after its retries
SearchErrors == {"E_conn"}

IsSpace(c) == c = " "

\* str.strip()
RECURSIVE LStrip(_)
LStrip(cs) ==
    IF cs # << >> /\ IsSpace(Head(cs)) THEN LStrip(Tail(cs)) ELSE cs
RECURSIVE RStrip(_)
RStrip(cs) ==
    IF cs # << >> /\ IsSpace(cs[Len(cs)])
    THEN RStrip(SubSeq(cs, 1, Len(cs) - 1))
    ELSE cs
Strip(cs) == RStrip(LStrip(cs))

\* str.upper() on one character, and on a string
UpperChar(c) ==
    IF \E i \in 1..Len(LowerCase) : LowerCase[i] = c
    THEN UpperCase[CHOOSE i \in 1..Len(LowerCase) : LowerCase[i] = c]
    ELSE c
Upper(cs) == [i \in 1..Len(cs) |-> UpperChar(cs[i])]

\* str.startswith
StartsWith(cs, prefix) ==
    Len(cs) >= Len(prefix) /\ SubSeq(cs, 1, Len(prefix)) = prefix

\* lines 237-239 and 321-322: decision.strip().upper().startswith("YES")
SaysYes(decision) == StartsWith(Upper(Strip(Chars(decision))), Chars("YES"))

\* line 488: `not query or not query.strip()`
IsBlank(query) == Chars(query) = << >> \/ Strip(Chars(query)) = << >>

\* get_llm raises ValueError for a provider it does not know
get_llm_raises(provider) == provider \notin KnownProviders

\* _get_agent_llm_client (lines 185-198): TRUE when it raises
agent_client_raises(override_provider) ==
    LET p0 == IF override_provider # "None" THEN override_provider
              ELSE router_llm_provider
        provider == IF p0 = llm_provider_setting THEN router_llm_provider ELSE p0
    IN  IF provider = router_llm_provider /\ override_provider = "None"
        THEN FALSE
        ELSE get_llm_raises(provider)

\* line 245: the routing decision when the agent's LLM call raises
RouteFallback_abort == FALSE
RouteFallback == TRUE

Reformulated_dropped(query, outcome) ==
    IF outcome = "raise" THEN << >> ELSE Strip(Chars(outcome))

\* line 294: the search query when the reformulation call raises
\* lines 285, 289: otherwise the stripped answer of the model
Reformulated(query, outcome) ==
    IF outcome = "raise" THEN Chars(query) ELSE Strip(Chars(outcome))

\* _validate_documents: the arguments of the call at line 532
min_score == 0
min_text_length == 10

\* _validate_documents (lines 392-418)
PassesValidation(doc) ==
    /\ ~(doc.score < min_score)
    /\ ~(Chars(doc.text) = << >>)
    /\ ~(Len(Strip(Chars(doc.text))) < min_text_length)

validate_documents(documents) == SelectSeq(documents, PassesValidation)

\* _evaluate_document_relevance (lines 310-328): the Boolean it returns, or
\* the exception that leaves it when the client lookup of line 315, which is
\* outside the try, raises ("client_error"); a raising LLM call gives True
Relevance(outcome) ==
    IF outcome = "client_error" THEN "Exception"
    ELSE IF outcome = "raise" THEN "True"
    ELSE IF SaysYes(outcome) THEN "True" ELSE "False"

\* _evaluate_documents_relevance_parallel, lines 361-376: the documents whose
\* result at the same index is true
\* line 363, 368: `relevance_results[idx]` for the document at index idx
ResultFor_reversed(results, idx) == results[Len(results) + 1 - idx]
ResultFor(results, idx) == results[idx]

RECURSIVE RelevantFrom(_, _, _)
RelevantFrom(documents, results, idx) ==
    IF idx > Len(documents) THEN << >>
    ELSE (IF ResultFor(results, idx) \in {"Exception", "True"}
          THEN <<documents[idx]>> ELSE << >>)
         \o RelevantFrom(documents, results, idx + 1)

RelevantDocuments(documents, results) == RelevantFrom(documents, results, 1)

\* line 534: `if not validated_documents`
NoneValidated(validated) == validated = << >>
\* line 558: `if not context_documents`
NoneRelevant_never(context) == FALSE
NoneRelevant(context) == context = << >>

\* lines 536 and 560: the fixed answer of a rejected request
error_message == "NO_RELEVANT_INFORMATION"

\* lines 538-545 and 562-569: what a rejected request returns
RejectedReturn == <<error_message, << >>, << >>, "search_time", "0.0", "total_time">>

\* lines 629-639: what a generation returns
GeneratedReturn(ans, context, withSearch) ==
    << ans,
       [i \in 1..Len(context) |-> context[i].doc_id],
       [i \in 1..Len(context) |-> context[i].metadata],
       IF withSearch THEN "search_time" ELSE "None",
       "generation_time",
       "total_time" >>

\* config.py line 21
session_ttl == 86400

\* the TTL of a key one second later
Elapse(seconds) == IF seconds > 1 THEN seconds - 1 ELSE seconds

\* memory_service.py lines 112-116: setex gives the key its full TTL
\* lines 195-198: so does expire, for a key that exists
SetTTL(ttls, session_id, ok) ==
    IF ok THEN [ttls EXCEPT ![session_id] = session_ttl] ELSE ttls

add_message_prepend(st, session_id, role, content, readOk, writeOk) ==
    LET read == IF readOk /\ st[session_id].present
                THEN st[session_id].history ELSE << >>
        history == Trim(<<[role |-> role, content |-> content]>> \o read)
    IN  IF writeOk
        THEN [st EXCEPT ![session_id] = [present |-> TRUE, history |-> history]]
        ELSE st

\* the use_rerank values of the model's requests
UseRerankArgs == {"None", "False"}

\* line 495: use_rerank defaults to True
UseRerank(arg) == IF arg = "None" THEN TRUE ELSE arg = "True"

\* the stages of one retriever_client.search call (line 523): the retriever
\* service runs the hybrid search and then, when use_rerank is set and the
\* search found something, the reranker (retriever_service.py lines 251-276)
\* before it returns the documents
RetrieverStages(rerank, documents) ==
    IF rerank /\ documents # << >> THEN <<"retrieve", "rerank">>
    ELSE <<"retrieve">>

\* line 511: `if use_retriever:` guards reformulation, search and filtering
AfterRouting_always(use) == "reformulate"
AfterRouting(use) == IF use THEN "reformulate" ELSE "generate"

\* before line 572 no prompt exists
NoPrompt == [query |-> "None", context |-> << >>, system |-> "None"]

\* lines 572-580 and _build_prompt (lines 420-440): the prompt carries the
\* query and the score and text of each context document, in order, and the
\* system prompt is chosen by whether there is a context document
BuildPrompt(query, context) ==
    [query |-> query,
     context |-> [i \in 1..Len(context) |->
                     [score |-> context[i].score, text |-> context[i].text]],
     system |-> IF context # << >> THEN "SYSTEM_PROMPT_WITH_RETRIEVER"
                ELSE "SYSTEM_PROMPT_WITHOUT_RETRIEVER"]

\* what becomes of generate when a command of the persistence step failed:
\* add_message and update_ttl log the exception (memory_service.py lines
\* 120-121 and 201-202) and so does generate (lines 624-626); the run goes on
PersistenceError_raised(failed, next) ==
    IF failed THEN [pc |-> "raised", err |-> "E_redis"]
    ELSE [pc |-> next, err |-> "None"]
PersistenceError(failed, next) == [pc |-> next, err |-> "None"]

\* MemoryService.add_message as one step on the store
add_message(st, session_id, role, content, readOk, writeOk) ==
    LET read == IF readOk /\ st[session_id].present
                THEN st[session_id].history ELSE << >>
        history == Trim(Append(read, [role |-> role, content |-> content]))
    IN  IF writeOk
        THEN [st EXCEPT ![session_id] = [present |-> TRUE, history |-> history]]
        ELSE st

\* routers.py line 43: the number of targets of the unpacking assignment
UnpackTargets == 7

\* routers.py lines 42-79: the status of the response
HandlerStatus(pc, ret, err) ==
    IF pc = "raised"
    THEN IF err = "ValueError" THEN 400 ELSE 500
    ELSE IF Len(ret) # UnpackTargets
         THEN 400        \* the unpacking raises ValueError, caught at line 68
         ELSE 200

NoCalls == [router |-> 0, reformulation |-> 0, search |-> 0, relevance |-> 0,
            generation |-> 0, memory |-> 0, ttl |-> 0]

GenInit ==
    /\ gPc = "idle"
    /\ gRequest = [query |-> "", session_id |-> "None", llm_provider |-> "None",
                   use_rerank |-> "None"]
    /\ use_retriever = FALSE
    /\ routeOutcome = "none"
    /\ reformulated_query = << >>
    /\ reformOutcome = "none"
    /\ gSearchQuery = << >>
    /\ relevance_outcomes = << >>
    /\ raw_documents = << >>
    /\ validated_documents = << >>
    /\ relevance_results = << >>
    /\ context_documents = << >>
    /\ searched = FALSE
    /\ answer = "None"
    /\ gRet = << >>
    /\ gErr = "None"
    /\ http = 0
    /\ gCalls = NoCalls
    /\ store0 = store
    /\ ttl = [s \in DOMAIN store |-> 0]
    /\ memoryFailed = FALSE
    /\ prompt = NoPrompt
    /\ gStages = << >>
    /\ runs = 0

\* the handler receives a request and calls generate (routers.py line 43);
\* generate raises ValueError for a blank query (lines 488-489)
HandlerCall(query, session_id, llm_provider, rerank) ==
    /\ gPc \in {"idle", "handled"}
    /\ runs < MaxRuns
    /\ runs' = runs + 1
    /\ gRequest' = [query |-> query, session_id |-> session_id,
                    llm_provider |-> llm_provider, use_rerank |-> rerank]
    /\ IF IsBlank(query)
       THEN gPc' = "raised" /\ gErr' = "ValueError"
       ELSE gPc' = "route" /\ gErr' = "None"
    /\ use_retriever' = FALSE
    /\ routeOutcome' = "none"
    /\ reformulated_query' = << >>
    /\ reformOutcome' = "none"
    /\ gSearchQuery' = << >>
    /\ relevance_outcomes' = << >>
    /\ raw_documents' = << >>
    /\ validated_documents' = << >>
    /\ relevance_results' = << >>
    /\ context_documents' = << >>
    /\ searched' = FALSE
    /\ answer' = "None"
    /\ gRet' = << >>
    /\ http' = 0
    /\ gCalls' = NoCalls
    /\ store0' = store
    /\ ttl' = [s \in DOMAIN ttl |-> Elapse(ttl[s])]
    /\ memoryFailed' = FALSE
    /\ prompt' = NoPrompt
    /\ gStages' = << >>
    /\ UNCHANGED store

\* _should_use_retriever (lines 200-245), called at line 503.  The agent's
\* client is looked up outside the try (line 231); outcome is the model's
\* answer, or "raise" when the LLM call raises
ShouldUseRetriever(outcome) ==
    /\ gPc = "route"
    /\ IF agent_client_raises(gRequest.llm_provider)
       THEN /\ gPc' = "raised"
            /\ gErr' = "ValueError"
            /\ UNCHANGED <<use_retriever, routeOutcome, gCalls>>
       ELSE /\ gCalls' = [gCalls EXCEPT !.router = @ + 1]
            /\ routeOutcome' = IF outcome = "raise" THEN "raised" ELSE "returned"
            /\ use_retriever' = IF outcome = "raise" THEN RouteFallback
                                ELSE SaysYes(outcome)
            /\ gPc' = AfterRouting(use_retriever')
            /\ UNCHANGED gErr
    /\ UNCHANGED <<gStages, prompt, ttl, memoryFailed, reformOutcome, gSearchQuery, relevance_outcomes, 
                   gRequest, reformulated_query, raw_documents,
                   validated_documents, relevance_results, context_documents,
                   searched, answer, gRet, http, store0, runs, store>>

\* _reformulate_query (lines 247-294), called at line 514
ReformulateQuery(outcome) ==
    /\ gPc = "reformulate"
    /\ gCalls' = [gCalls EXCEPT !.reformulation = @ + 1]
    /\ reformulated_query' = Reformulated(gRequest.query, outcome)
    /\ reformOutcome' = IF outcome = "raise" THEN "raised" ELSE "returned"
    /\ gPc' = "retrieve"
    /\ UNCHANGED <<gStages, prompt, ttl, memoryFailed, gSearchQuery, relevance_outcomes, 
                   gRequest, use_retriever, routeOutcome, raw_documents,
                   validated_documents, relevance_results, context_documents,
                   searched, answer, gRet, gErr, http, store0, runs, store>>

\* retriever_client.search returns (line 523); the documents are validated
\* (line 532) and the request is rejected when none is left (lines 534-545)
SearchReturns(documents) ==
    /\ gPc = "retrieve"
    /\ gCalls' = [gCalls EXCEPT !.search = @ + 1]
    /\ gSearchQuery' = reformulated_query
    /\ gStages' = gStages \o RetrieverStages(UseRerank(gRequest.use_rerank),
                                              documents)
                          \o <<"validate">>
    /\ raw_documents' = documents
    /\ validated_documents' = validate_documents(documents)
    /\ searched' = TRUE
    /\ IF NoneValidated(validated_documents')
       THEN /\ gRet' = RejectedReturn
            /\ gPc' = "returned"
            /\ UNCHANGED <<relevance_results, relevance_outcomes>>
       ELSE /\ relevance_results' =
                   [i \in 1..Len(validated_documents') |-> "pending"]
            /\ relevance_outcomes' =
                   [i \in 1..Len(validated_documents') |->
                       [outcome |-> "pending", order |-> 0]]
            /\ gPc' = "relevance"
            /\ UNCHANGED gRet
    /\ UNCHANGED <<prompt, ttl, memoryFailed, reformOutcome, 
                   gRequest, use_retriever, routeOutcome, reformulated_query,
                   context_documents, answer, gErr, http, store0, runs, store>>

\* retriever_client.search raises (lines 128-136): generate lets it through
SearchRaises(e) ==
    /\ gPc = "retrieve"
    /\ gCalls' = [gCalls EXCEPT !.search = @ + 1]
    /\ gSearchQuery' = reformulated_query
    /\ gErr' = e
    /\ gPc' = "raised"
    /\ UNCHANGED <<gStages, prompt, ttl, memoryFailed, reformOutcome, relevance_outcomes, 
                   gRequest, use_retriever, routeOutcome, reformulated_query,
                   raw_documents, validated_documents, relevance_results,
                   context_documents, searched, answer, gRet, http, store0,
                   runs, store>>

\* one task of the gather at line 358 ends: _evaluate_document_relevance for
\* the document at index idx
EvaluateDocumentRelevance(idx, outcome) ==
    /\ gPc = "relevance"
    /\ idx \in 1..Len(relevance_results)
    /\ relevance_results[idx] = "pending"
    /\ gCalls' = [gCalls EXCEPT !.relevance = @ + 1]
    /\ relevance_results' = [relevance_results EXCEPT ![idx] = Relevance(outcome)]
    /\ relevance_outcomes' =
           [relevance_outcomes EXCEPT
               ![idx] = [outcome |-> outcome, order |-> gCalls.relevance + 1]]
    /\ UNCHANGED <<gStages, prompt, ttl, memoryFailed, reformOutcome, gSearchQuery, 
                   gPc, gRequest, use_retriever, routeOutcome,
                   reformulated_query, raw_documents, validated_documents,
                   context_documents, searched, answer, gRet, gErr, http,
                   store0, runs, store>>

\* the gather has ended: the documents are filtered by their results (lines
\* 361-376) and the request is rejected when none is left (lines 558-569)
FilterDocuments ==
    /\ gPc = "relevance"
    /\ \A i \in 1..Len(relevance_results) : relevance_results[i] # "pending"
    /\ context_documents' = RelevantDocuments(validated_documents, relevance_results)
    /\ gStages' = Append(gStages, "filter")
    /\ IF NoneRelevant(context_documents')
       THEN gRet' = RejectedReturn /\ gPc' = "returned"
       ELSE gPc' = "generate" /\ UNCHANGED gRet
    /\ UNCHANGED <<prompt, ttl, memoryFailed, reformOutcome, gSearchQuery, relevance_outcomes, 
                   gRequest, use_retriever, routeOutcome, reformulated_query,
                   raw_documents, validated_documents, relevance_results,
                   searched, answer, gErr, http, gCalls, store0, runs, store>>

\* lines 572-610: the prompt, the history read and the generation model; the
\* client lookup of line 601 raises ValueError for an unknown provider.  A
\* request without session returns at once (lines 628-639)
LLMGenerate(outcome) ==
    /\ gPc = "generate"
    /\ prompt' = BuildPrompt(gRequest.query, context_documents)
    /\ gStages' = Append(gStages, "build_prompt")
    /\ IF gRequest.llm_provider # "None" /\ get_llm_raises(gRequest.llm_provider)
       THEN /\ gErr' = "ValueError"
            /\ gPc' = "raised"
            /\ UNCHANGED <<answer, gRet, gCalls>>
       ELSE /\ gCalls' = [gCalls EXCEPT !.generation = @ + 1]
            /\ IF outcome = "raise"
               THEN /\ gErr' = "E_llm"
                    /\ gPc' = "raised"
                    /\ UNCHANGED <<answer, gRet>>
               ELSE /\ answer' = outcome
                    /\ UNCHANGED gErr
                    /\ IF gRequest.session_id = "None"
                       THEN /\ gRet' = GeneratedReturn(outcome, context_documents,
                                                       searched)
                            /\ gPc' = "returned"
                       ELSE /\ gPc' = "persist_user"
                            /\ UNCHANGED gRet
    /\ UNCHANGED <<ttl, memoryFailed, reformOutcome, gSearchQuery, relevance_outcomes, 
                   gRequest, use_retriever, routeOutcome, reformulated_query,
                   raw_documents, validated_documents, relevance_results,
                   context_documents, searched, http, store0, runs, store>>

\* line 618: add_message(session_id, "user", query)
PersistUser(readOk, writeOk) ==
    /\ gPc = "persist_user"
    /\ gCalls' = [gCalls EXCEPT !.memory = @ + 1]
    /\ store' = add_message(store, gRequest.session_id, "user", gRequest.query,
                            readOk, writeOk)
    /\ ttl' = SetTTL(ttl, gRequest.session_id, writeOk)
    /\ memoryFailed' = (memoryFailed \/ ~readOk \/ ~writeOk)
    /\ gPc' = PersistenceError(~readOk \/ ~writeOk, "persist_assistant").pc
    /\ gErr' = PersistenceError(~readOk \/ ~writeOk, "persist_assistant").err
    /\ UNCHANGED <<gStages, prompt, reformOutcome, gSearchQuery, relevance_outcomes, 
                   gRequest, use_retriever, routeOutcome, reformulated_query,
                   raw_documents, validated_documents, relevance_results,
                   context_documents, searched, answer, gRet, http,
                   store0, runs>>

\* line 619: add_message(session_id, "assistant", answer)
PersistAssistant(readOk, writeOk) ==
    /\ gPc = "persist_assistant"
    /\ gCalls' = [gCalls EXCEPT !.memory = @ + 1]
    /\ store' = add_message(store, gRequest.session_id, "assistant", answer,
                            readOk, writeOk)
    /\ ttl' = SetTTL(ttl, gRequest.session_id, writeOk)
    /\ memoryFailed' = (memoryFailed \/ ~readOk \/ ~writeOk)
    /\ gPc' = PersistenceError(~readOk \/ ~writeOk, "update_ttl").pc
    /\ gErr' = PersistenceError(~readOk \/ ~writeOk, "update_ttl").err
    /\ UNCHANGED <<gStages, prompt, reformOutcome, gSearchQuery, relevance_outcomes, 
                   gRequest, use_retriever, routeOutcome, reformulated_query,
                   raw_documents, validated_documents, relevance_results,
                   context_documents, searched, answer, gRet, http, store0,
                   runs>>

\* lines 622-639: update_ttl(session_id), whose exists and expire commands
\* work (ok) or raise inside update_ttl, which logs it; then the return
UpdateTtl(ok) ==
    /\ gPc = "update_ttl"
    /\ gCalls' = [gCalls EXCEPT !.ttl = @ + 1]
    /\ ttl' = SetTTL(ttl, gRequest.session_id,
                     ok /\ store[gRequest.session_id].present)
    /\ memoryFailed' = (memoryFailed \/ ~ok)
    /\ gRet' = GeneratedReturn(answer, context_documents, searched)
    /\ gPc' = PersistenceError(~ok, "returned").pc
    /\ gErr' = PersistenceError(~ok, "returned").err
    /\ UNCHANGED <<gStages, prompt, reformOutcome, gSearchQuery, relevance_outcomes, 
                   gRequest, use_retriever, routeOutcome, reformulated_query,
                   raw_documents, validated_documents, relevance_results,
                   context_documents, searched, answer, http, store0,
                   runs, store>>

\* routers.py lines 43-79: the handler unpacks what generate returned, or
\* catches what it raised, and answers
HandlerFinish ==
    /\ gPc \in {"returned", "raised"}
    /\ http' = HandlerStatus(gPc, gRet, gErr)
    /\ gPc' = "handled"
    /\ UNCHANGED <<gStages, prompt, ttl, memoryFailed, reformOutcome, gSearchQuery, relevance_outcomes, 
                   gRequest, use_retriever, routeOutcome, reformulated_query,
                   raw_documents, validated_documents, relevance_results,
                   context_documents, searched, answer, gRet, gErr, gCalls,
                   store0, runs, store>>

GenNext ==
    \/ \E query \in Queries, s \in SessionIds, p \in RequestProviders,
          rerank \in UseRerankArgs :
          HandlerCall(query, s, p, rerank)
          /\ UNCHANGED <<retryVars, rrfVars, memLocals, batVars, vsVars>>
    \/ \E outcome \in Decisions \cup {"raise"} :
          ShouldUseRetriever(outcome)
          /\ UNCHANGED <<retryVars, rrfVars, memLocals, batVars, vsVars>>
    \/ \E outcome \in Reformulations \cup {"raise"} :
          ReformulateQuery(outcome)
          /\ UNCHANGED <<retryVars, rrfVars, memLocals, batVars, vsVars>>
    \/ \E documents \in DocLists(MaxDocs) :
          SearchReturns(documents)
          /\ UNCHANGED <<retryVars, rrfVars, memLocals, batVars, vsVars>>
    \/ \E e \in SearchErrors :
          SearchRaises(e) /\ UNCHANGED <<retryVars, rrfVars, memLocals, batVars, vsVars>>
    \/ \E idx \in 1..MaxDocs, outcome \in Decisions \cup {"raise", "client_error"} :
          EvaluateDocumentRelevance(idx, outcome)
          /\ UNCHANGED <<retryVars, rrfVars, memLocals, batVars, vsVars>>
    \/ FilterDocuments /\ UNCHANGED <<retryVars, rrfVars, memLocals, batVars, vsVars>>
    \/ \E outcome \in Answers \cup {"raise"} :
          LLMGenerate(outcome)
          /\ UNCHANGED <<retryVars, rrfVars, memLocals, batVars, vsVars>>
    \/ \E readOk \in BOOLEAN, writeOk \in BOOLEAN :
          PersistUser(readOk, writeOk)
          /\ UNCHANGED <<retryVars, rrfVars, memLocals, batVars, vsVars>>
    \/ \E readOk \in BOOLEAN, writeOk \in BOOLEAN :
          PersistAssistant(readOk, writeOk)
          /\ UNCHANGED <<retryVars, rrfVars, memLocals, batVars, vsVars>>
    \/ \E ok \in BOOLEAN :
          UpdateTtl(ok)
          /\ UNCHANGED <<retryVars, rrfVars, memLocals, batVars, vsVars>>
    \/ HandlerFinish /\ UNCHANGED <<retryVars, rrfVars, memLocals, batVars, vsVars>>

(***************************************************************************)
(* retriever/vector_search.py and retriever/retriever_service.py           *)
(*                                                                         *)
(* One operation at a time on the Qdrant collection: either                *)
(* VectorSearch.add_documents or RetrieverService.search, which calls      *)
(* VectorSearch.search.  Every call to the remote store goes through       *)
(* retry_with_backoff with the retry settings of retriever/config.py.      *)
(***************************************************************************)
\* the number of operations in a behaviour
MaxStoreOps == 2
\* the longest ids / metadatas argument of add_documents
MaxArgLen == 3
\* the longest documents argument of add_documents
MaxDocuments == 2
\* settings.top_k and settings.top_n (config.py lines 34-35: 20 and 10),
\* scaled down
settings_top_k == 2
settings_top_n == 1

\* settings.qdrant_max_retries
qdrant_max_retries == 3

DocumentTexts == {"t1", "t2"}
GivenIds == {1, 2}
Metadata == {"m"}
\* the errors a call to the remote store may raise: a retryable one and one
\* that is not
RemoteErrors == {"E_conn", "E_404"}

\* an optional argument: None (for a number, for a list), or a value
None == [given |-> FALSE, value |-> 0]
NoList == [given |-> FALSE, value |-> << >>]
Some(v) == [given |-> TRUE, value |-> v]

RECURSIVE SeqsOver(_, _)
\* the sequences over S of length at most n
SeqsOver(S, n) ==
    IF n = 0 THEN {<< >>}
    ELSE LET shorter == SeqsOver(S, n - 1)
         IN  shorter \cup {Append(s, x) : s \in shorter, x \in S}

\* Python len(set(ids))
Distinct(ids) == Cardinality({ids[i] : i \in DOMAIN ids})

\* str(uuid4()) for each document (line 269): fresh ids
FreshIds(n, next) == [i \in 1..n |-> next + i - 1]

\* line 261: `metadatas = [{}] * len(documents)`
DefaultMetadatas(n) == [i \in 1..n |-> "empty"]

\* add_documents, lines 258-273: the ValueError it raises, or "None"
AddDocumentsError(documents, ids, metadatas) ==
    IF documents = << >> THEN "ValueError"
    ELSE IF Len(metadatas) # Len(documents) THEN "ValueError"
    ELSE IF Len(ids) # Distinct(ids) THEN "ValueError"
    ELSE "None"

\* the shortest of three lengths: zip(..., strict=False) at lines 292-294
\* stops at the shortest of its arguments
ZipLen(a, b, c) ==
    LET ab == IF a < b THEN a ELSE b
    IN  IF ab < c THEN ab ELSE c

\* lines 291-302: the points sent to the store
BuildPoints(documents, ids, metadatas) ==
    [i \in 1..ZipLen(Len(ids), Len(documents), Len(metadatas)) |->
        [id |-> ids[i], text |-> documents[i], metadata |-> metadatas[i]]]

RECURSIVE Upsert(_, _)
\* client.upsert: each point replaces the stored point of the same id
Upsert(stored, pts) ==
    IF pts = << >> THEN stored
    ELSE Upsert({q \in stored : q.id # Head(pts).id} \cup {Head(pts)}, Tail(pts))

\* retry_with_backoff around a call to the store: TRUE when the failure e
\* of attempt number a (from 0) leaves retry_with_backoff
GivesUp(e, a) == PropagatesAtOnce(e) \/ IsLastAttempt(a, qdrant_max_retries)

NoRemoteCalls == [upsert |-> 0, query |-> 0]

\* RetrieverService.search, line 230: `not query or not query.strip()`, and
\* VectorSearch.search, line 349, on the characters of the query
BlankChars(cs) == cs = << >> \/ Strip(cs) = << >>

\* RetrieverService.search, lines 234-235: `top_k or self.top_k`
OrDefault(arg, default) ==
    IF arg.given /\ arg.value # 0 THEN arg.value ELSE default

\* RetrieverService.search, lines 230-240: the ValueError it raises, or "None"
SearchError(query, top_k, top_n) ==
    IF BlankChars(Chars(query)) THEN "ValueError"
    ELSE IF OrDefault(top_k, settings_top_k) < 1 THEN "ValueError"
    ELSE IF OrDefault(top_n, settings_top_n) < 1 THEN "ValueError"
    ELSE "None"

\* RetrieverService._reformulate_query (lines 156-205) and the test at line
\* 245: the query sent to the vector search
SearchQuery(query, reformulation) ==
    IF reformulation \in {"off", "raise"} THEN Chars(query)
    ELSE Strip(Chars(reformulation))

\* VectorSearch.search, lines 349-355: TRUE when it returns [] at once
ReturnsEmptyAtOnce(search_chars, top_k) ==
    BlankChars(search_chars) \/ top_k < 1

\* the hits the store may return
Hits ==
    { [doc_id |-> "d1", score |-> 90, text |-> "t1", metadata |-> "m1"],
      [doc_id |-> "d2", score |-> 70, text |-> "t2", metadata |-> "m2"],
      [doc_id |-> "d3", score |-> 40, text |-> "t3", metadata |-> "m3"] }

\* the lists of at most n distinct hits
HitLists(n) ==
    { s \in SeqsOver(Hits, n) : \A i, j \in DOMAIN s : i # j => s[i] # s[j] }

\* Python s[:n] for n >= 0
Prefix(s, n) == IF Len(s) <= n THEN s ELSE SubSeq(s, 1, n)

\* _hybrid_search, lines 514-521: what it does with the failure that left
\* retry_with_backoff
HybridSearchFails_empty(e) == [pc |-> "done", err |-> "None"]
HybridSearchFails(e) == [pc |-> "raised", err |-> Reraise(e)]

\* the reranker (tplexity.retriever.reranker): the indices of the documents
\* in descending order of some score, truncated to top_n
RerankResults(n, top_n) ==
    { s \in SeqsOver(1..n, n) :
        /\ Len(s) = (IF n < top_n THEN n ELSE top_n)
        /\ \A i, j \in DOMAIN s : i # j => s[i] # s[j] }

\* retriever_service.py lines 280-290: the results mapped back to documents
RerankedResults(results, rerank_results) ==
    [i \in DOMAIN rerank_results |-> results[rerank_results[i]]]

NoVsArgs == [query |-> "", top_k |-> 0, top_n |-> 0, use_rerank |-> FALSE,
             idsLen |-> 0, documentsLen |-> 0, metadatasLen |-> 0,
             idsDistinct |-> TRUE]

VsInit ==
    /\ vPc = "idle"
    /\ vOp = "none"
    /\ vArgs = NoVsArgs
    /\ vTopKGiven = None
    /\ points = << >>
    /\ qdrant = {}
    /\ qdrant0 = {}
    /\ uuidNext = 100
    /\ vAttempt = 0
    /\ remoteCalls = NoRemoteCalls
    /\ hybrid_results = << >>
    /\ vResult = << >>
    /\ vErr = "None"
    /\ vFailures = << >>
    /\ vOps = 0

\* add_documents up to the first upsert (lines 241-305): the validation,
\* the embeddings, the points and _ensure_collection, which raises when the
\* store cannot be reached
AddDocumentsCall(documents, ids, metadatas, collectionOk) ==
    /\ vPc \in {"idle", "done", "raised"}
    /\ vOps < MaxStoreOps
    /\ vOps' = vOps + 1
    /\ vOp' = "add"
    /\ LET metas == IF metadatas.given THEN metadatas.value
                    ELSE DefaultMetadatas(Len(documents))
           theIds == IF ids.given THEN ids.value
                     ELSE FreshIds(Len(documents), uuidNext)
           error == AddDocumentsError(documents, theIds, metas)
       IN  /\ vArgs' = [NoVsArgs EXCEPT !.idsLen = Len(theIds),
                                        !.documentsLen = Len(documents),
                                        !.metadatasLen = Len(metas),
                                        !.idsDistinct = (Len(theIds) = Distinct(theIds))]
           /\ uuidNext' = IF ids.given \/ documents = << >> THEN uuidNext
                          ELSE uuidNext + Len(documents)
           /\ IF error # "None"
              THEN vPc' = "raised" /\ vErr' = error /\ points' = << >>
              ELSE IF ~collectionOk
              THEN vPc' = "raised" /\ vErr' = "E_conn" /\ points' = << >>
              ELSE /\ vPc' = "upsert"
                   /\ vErr' = "None"
                   /\ points' = BuildPoints(documents, theIds, metas)
    /\ vTopKGiven' = None
    /\ qdrant0' = qdrant
    /\ vAttempt' = 0
    /\ remoteCalls' = NoRemoteCalls
    /\ hybrid_results' = << >>
    /\ vResult' = << >>
    /\ vFailures' = << >>
    /\ UNCHANGED qdrant

\* one attempt of client.upsert (line 307) succeeds
UpsertReturns ==
    /\ vPc = "upsert"
    /\ remoteCalls' = [remoteCalls EXCEPT !.upsert = @ + 1]
    /\ qdrant' = Upsert(qdrant, points)
    /\ vPc' = "done"
    /\ UNCHANGED <<vOp, vArgs, vTopKGiven, points, qdrant0, uuidNext, vAttempt,
                   hybrid_results, vResult, vErr, vFailures, vOps>>

\* one attempt of client.upsert fails: retry_with_backoff sleeps and calls
\* again, or gives up, and add_documents re-raises (lines 320-326)
UpsertRaises(e) ==
    /\ vPc = "upsert"
    /\ remoteCalls' = [remoteCalls EXCEPT !.upsert = @ + 1]
    /\ vFailures' = Append(vFailures, e)
    /\ IF GivesUp(e, vAttempt)
       THEN vPc' = "raised" /\ vErr' = Reraise(e) /\ UNCHANGED vAttempt
       ELSE vAttempt' = vAttempt + 1 /\ UNCHANGED <<vPc, vErr>>
    /\ UNCHANGED <<vOp, vArgs, vTopKGiven, points, qdrant, qdrant0, uuidNext,
                   hybrid_results, vResult, vOps>>

\* RetrieverService.search up to the first call to the store (lines 207-251)
\* with VectorSearch.search up to _hybrid_search (lines 349-358);
\* reformulation is what _reformulate_query does: "off" when it is disabled,
\* "raise" when its LLM call raises, or the answer of the model
SearchCall(query, top_k, top_n, use_rerank, reformulation) ==
    /\ vPc \in {"idle", "done", "raised"}
    /\ vOps < MaxStoreOps
    /\ vOps' = vOps + 1
    /\ vOp' = "search"
    /\ vTopKGiven' = top_k
    /\ LET error == SearchError(query, top_k, top_n)
           topK == OrDefault(top_k, settings_top_k)
           topN == OrDefault(top_n, settings_top_n)
       IN  /\ vArgs' = [NoVsArgs EXCEPT !.query = query, !.top_k = topK,
                                        !.top_n = topN,
                                        !.use_rerank = use_rerank]
           /\ IF error # "None"
              THEN vPc' = "raised" /\ vErr' = error
              ELSE IF ReturnsEmptyAtOnce(SearchQuery(query, reformulation), topK)
              THEN vPc' = "done" /\ vErr' = "None"
              ELSE vPc' = "query" /\ vErr' = "None"
    /\ qdrant0' = qdrant
    /\ vAttempt' = 0
    /\ remoteCalls' = NoRemoteCalls
    /\ hybrid_results' = << >>
    /\ vResult' = << >>
    /\ vFailures' = << >>
    /\ points' = << >>
    /\ UNCHANGED <<qdrant, uuidNext>>

\* one attempt of client.query_points (line 502) succeeds: _hybrid_search
\* returns the hits (lines 523-529) and RetrieverService.search returns them
\* (lines 254-298) or hands them to the reranker
QueryReturns(hits) ==
    /\ vPc = "query"
    /\ Len(hits) <= vArgs.top_k
    /\ remoteCalls' = [remoteCalls EXCEPT !.query = @ + 1]
    /\ hybrid_results' = hits
    /\ IF hits = << >>
       THEN vPc' = "done" /\ vResult' = << >>
       ELSE IF vArgs.use_rerank
       THEN vPc' = "rerank" /\ UNCHANGED vResult
       ELSE vPc' = "done" /\ vResult' = Prefix(hits, vArgs.top_n)
    /\ UNCHANGED <<vOp, vArgs, vTopKGiven, points, qdrant, qdrant0, uuidNext,
                   vAttempt, vErr, vFailures, vOps>>

\* one attempt of client.query_points fails: retry_with_backoff sleeps and
\* calls again, or gives up (lines 513-521); RetrieverService.search has no
\* handler around vector_search.search
QueryRaises(e) ==
    /\ vPc = "query"
    /\ remoteCalls' = [remoteCalls EXCEPT !.query = @ + 1]
    /\ vFailures' = Append(vFailures, e)
    /\ IF GivesUp(e, vAttempt)
       THEN /\ vPc' = HybridSearchFails(e).pc
            /\ vErr' = HybridSearchFails(e).err
            /\ UNCHANGED vAttempt
       ELSE vAttempt' = vAttempt + 1 /\ UNCHANGED <<vPc, vErr>>
    /\ UNCHANGED <<vOp, vArgs, vTopKGiven, points, qdrant, qdrant0, uuidNext,
                   hybrid_results, vResult, vOps>>

\* the reranker returns (retriever_service.py lines 276-298)
RerankReturns(rerank_results) ==
    /\ vPc = "rerank"
    /\ rerank_results \in
          RerankResults(Len(Prefix(hybrid_results, vArgs.top_k)), vArgs.top_n)
    /\ vResult' = RerankedResults(Prefix(hybrid_results, vArgs.top_k), rerank_results)
    /\ vPc' = "done"
    /\ UNCHANGED <<vOp, vArgs, vTopKGiven, points, qdrant, qdrant0, uuidNext,
                   vAttempt, remoteCalls, hybrid_results, vErr, vFailures, vOps>>

TopArgs == {None} \cup {Some(v) : v \in -1..settings_top_k}
SearchReformulations == {"off", "raise", " key rate ", "  "}

VsNext ==
    \/ \E documents \in SeqsOver(DocumentTexts, MaxDocuments),
          ids \in {NoList} \cup {Some(s) : s \in SeqsOver(GivenIds, MaxArgLen)},
          metadatas \in {NoList} \cup {Some(s) : s \in SeqsOver(Metadata, MaxArgLen)},
          collectionOk \in BOOLEAN :
          AddDocumentsCall(documents, ids, metadatas, collectionOk)
          /\ UNCHANGED <<retryVars, rrfVars, memVars, batVars, genVars>>
    \/ UpsertReturns /\ UNCHANGED <<retryVars, rrfVars, memVars, batVars, genVars>>
    \/ \E e \in RemoteErrors :
          UpsertRaises(e) /\ UNCHANGED <<retryVars, rrfVars, memVars, batVars, genVars>>
    \/ \E query \in Queries, top_k \in TopArgs, top_n \in TopArgs,
          use_rerank \in BOOLEAN, reformulation \in SearchReformulations :
          SearchCall(query, top_k, top_n, use_rerank, reformulation)
          /\ UNCHANGED <<retryVars, rrfVars, memVars, batVars, genVars>>
    \/ \E hits \in HitLists(settings_top_k) :
          QueryReturns(hits) /\ UNCHANGED <<retryVars, rrfVars, memVars, batVars, genVars>>
    \/ \E e \in RemoteErrors :
          QueryRaises(e) /\ UNCHANGED <<retryVars, rrfVars, memVars, batVars, genVars>>
    \/ \E r \in SeqsOver(1..settings_top_k, settings_top_k) :
          RerankReturns(r) /\ UNCHANGED <<retryVars, rrfVars, memVars, batVars, genVars>>

(***************************************************************************)
(* Specifications                                                          *)
(***************************************************************************)
Init == RetryInit /\ RRFInit /\ MemInit /\ BatInit /\ GenInit /\ VsInit

SpecRetry == Init /\ [][RetryNext]_vars
SpecRRF == Init /\ [][RRFNext]_vars
SpecMemory == Init /\ [][MemNext]_vars
SpecBatcher == Init /\ [][BatNext]_vars
SpecGenerate == Init /\ [][GenNext]_vars
SpecVectorSearch == Init /\ [][VsNext]_vars

\* the requests and the LLM answers of the behaviours in which the progress
\* of the batcher is checked
LiveInputs == {<<"None", "t1">>}
LiveResponses == {"14 days"}

\* the steps of the callers of determine_relevance_days
CallerStep ==
    \/ \E c \in BatchCallers, in \in LiveInputs :
          Call(c, in[1], in[2]) /\ UNCHANGED <<retryVars, rrfVars, memVars, genVars, vsVars>>
    \/ \E c \in BatchCallers :
          ResumeWithResult(c) /\ UNCHANGED <<retryVars, rrfVars, memVars, genVars, vsVars>>
    \/ \E c \in BatchCallers :
          ResumeWithException(c) /\ UNCHANGED <<retryVars, rrfVars, memVars, genVars, vsVars>>
    \/ \E c \in BatchCallers :
          CallerTimeout(c) /\ UNCHANGED <<retryVars, rrfVars, memVars, genVars, vsVars>>

\* the steps of the _batch_processor task (lines 139-149)
CollectorStep ==
    \/ \E u \in SUBSET Providers :
          CollectAndDispatch(u) /\ UNCHANGED <<retryVars, rrfVars, memVars, genVars, vsVars>>
    \/ BatchDone /\ UNCHANGED <<retryVars, rrfVars, memVars, genVars, vsVars>>

\* the end of the LLM call of request r
LLMCallEnds(r) ==
    \/ \E raw \in LiveResponses :
          LLMReturns(r, raw) /\ UNCHANGED <<retryVars, rrfVars, memVars, genVars, vsVars>>
    \/ LLMRaises(r) /\ UNCHANGED <<retryVars, rrfVars, memVars, genVars, vsVars>>

BatLiveNext ==
    \/ CallerStep
    \/ CollectorStep
    \/ \E r \in 1..MaxRequests : LLMCallEnds(r)

\* the batcher while it is running: the event loop keeps scheduling the
\* _batch_processor task, and every LLM call returns or raises in the end
SpecBatcherLive ==
    /\ Init /\ [][BatLiveNext]_vars
    /\ WF_vars(CollectorStep)
    /\ \A r \in 1..MaxRequests : WF_vars(LLMCallEnds(r))

(***************************************************************************)
(* Claims about retry_with_backoff                                         *)
(***************************************************************************)
FuncFailed(i) == outcomes[i] # "ok"

\* every invocation of func so far failed with a retryable error
AllRetryableFailures ==
    \A i \in 1..Len(outcomes) : FuncFailed(i) /\ is_retryable_error(outcomes[i])

\* the run gave up after max_retries retryable failures
RetriesExhausted ==
    /\ rPc = "raised"
    /\ max_retries >= 1
    /\ Len(outcomes) = max_retries
    /\ AllRetryableFailures

\* C1: with max_retries = n >= 1 and a func that fails retryably on every call,
\* func is invoked exactly n times, with one backoff sleep after each attempt
\* but the last, and the run then fails with the last error.
C1_RetryBound ==
    (rPc # "idle" /\ max_retries >= 1 /\ AllRetryableFailures) =>
        /\ Len(outcomes) <= max_retries
        /\ rPc # "returned"
        /\ rPc = "loop" =>
              /\ Len(outcomes) < max_retries
              /\ Len(sleepLog) = Len(outcomes)
        /\ rPc = "raised" =>
              /\ Len(outcomes) = max_retries
              /\ Len(sleepLog) = max_retries - 1
              /\ raised = outcomes[max_retries]

C1_Witness ==
    /\ rPc = "raised"
    /\ max_retries = 3
    /\ Len(outcomes) = 3
    /\ Len(sleepLog) = 2
    /\ AllRetryableFailures

\* C2: a failure classified non-retryable ends the run at once with that same
\* error: it is the last invocation of func and no sleep follows it, whatever
\* max_retries is and however many retryable failures came before.
C2_NonRetryableAtOnce ==
    \A i \in 1..Len(outcomes) :
        (FuncFailed(i) /\ ~is_retryable_error(outcomes[i])) =>
            /\ i = Len(outcomes)
            /\ rPc = "raised"
            /\ raised = outcomes[i]
            /\ Len(sleepLog) = i - 1

C2_Witness ==
    /\ rPc = "raised"
    /\ max_retries = 3
    /\ Len(outcomes) = 1
    /\ ~is_retryable_error(outcomes[1])
    /\ sleepLog = << >>

\* C3 as stated: after exhausting the retries the caller receives an error
\* tagged as a RetriesExhaustedError.
C3_TaggedRetriesExhausted ==
    RetriesExhausted => Exc(raised).type = "RetriesExhaustedError"

\* C3 as amended: after exhausting the retries the caller receives the last
\* failure itself, re-raised unchanged, with no "retries exhausted" tag.
C3_LastFailureUnchanged ==
    RetriesExhausted =>
        /\ raised = last_exception
        /\ raised = outcomes[Len(outcomes)]
        /\ Exc(raised).type # "RetriesExhaustedError"

C3_Witness == RetriesExhausted /\ max_retries = 3 /\ raised = "E_503"

\* min(initial_delay * exponential_base^a, max_delay), in hundredths of a
\* second, for the attempt with 0-based index a of the current call
RECURSIVE Doubled(_)
Doubled(a) == IF a = 0 THEN 100 ELSE 2 * Doubled(a - 1)
CappedDelay(a) ==
    IF Doubled(a) <= max_delay * 100 THEN Doubled(a) ELSE max_delay * 100

\* C28: the sleep after the failed attempt with 0-based index a is
\* min(initial_delay * exponential_base^a, max_delay) with jitter off; with
\* jitter on it is at least that value and at most 1.25 times that value; no
\* sleep is longer than 1.25 * max_delay.
C28_BackoffDelay ==
    \A i \in 1..Len(sleepLog) :
        /\ ~jitter => sleepLog[i] = CappedDelay(i - 1)
        /\ jitter =>
              /\ sleepLog[i] >= CappedDelay(i - 1)
              /\ 100 * sleepLog[i] <= 125 * CappedDelay(i - 1)
        /\ 100 * sleepLog[i] <= 125 * max_delay * 100

\* with max_delay 1 and jitter on, the second sleep is one capped second
\* plus a jitter of 24 hundredths
C28_Witness ==
    /\ jitter
    /\ max_delay = 1
    /\ Len(sleepLog) = 2
    /\ sleepLog[2] = 124

\* the failure is a network or timeout error by its type, or carries one of
\* the retryable HTTP statuses
NetworkOrRetryableStatus(e) ==
    \/ \E r \in retryable_errors : Contains(Chars(Exc(e).type), Chars(r))
    \/ \E s \in Exc(e).status_code : s \in {429, 500, 502, 503, 504}

\* C24: a failure is classified retryable, and followed by a backoff sleep
\* and another attempt, only if it is a network or timeout error or carries
\* a status in {429, 500, 502, 503, 504}; a validation error whose message
\* merely contains "500", "connection" or "network" is never retried.
C24_RetriedOnlyNetworkOrStatus ==
    /\ \A i \in 1..Len(outcomes) :
           (FuncFailed(i) /\ is_retryable_error(outcomes[i])) =>
               NetworkOrRetryableStatus(outcomes[i])
    /\ \A i \in 1..Len(sleepLog) : NetworkOrRetryableStatus(outcomes[i])

(***************************************************************************)
(* Claims about RRFRanker.rank                                             *)
(***************************************************************************)
Range(s) == {s[i] : i \in 1..Len(s)}

NoRepeats(s) == \A i, j \in 1..Len(s) : i # j => s[i] # s[j]

\* the 1-based rank of doc_id in a ranking that holds it once
RankOf(ranking, doc_id) == CHOOSE i \in 1..Len(ranking) : ranking[i] = doc_id

\* the sum over rankings[1..j] that contain doc_id of 1/(k + rank)
RECURSIVE ExpectedScore(_, _)
ExpectedScore(doc_id, j) ==
    IF j = 0 THEN 0
    ELSE ExpectedScore(doc_id, j - 1) +
         (IF doc_id \in Range(rankings[j])
          THEN ScoreDen \div (k + RankOf(rankings[j], doc_id))
          ELSE 0)

\* C4: for rankings without repeated ids, the output holds every doc id of
\* some ranking exactly once and no other id, each with the score
\* sum of 1/(k + rank), rank from 1; no or only empty rankings give [].
C4_FusionScores ==
    (rrfPc = "done" /\ \A j \in 1..Len(rankings) : NoRepeats(rankings[j])) =>
        /\ {sorted_results[i][1] : i \in 1..Len(sorted_results)}
              = UNION {Range(rankings[j]) : j \in 1..Len(rankings)}
        /\ \A i, j \in 1..Len(sorted_results) :
              i # j => sorted_results[i][1] # sorted_results[j][1]
        /\ \A i \in 1..Len(sorted_results) :
              sorted_results[i][2]
                 = ExpectedScore(sorted_results[i][1], Len(rankings))
        /\ (\A j \in 1..Len(rankings) : rankings[j] = << >>)
              => sorted_results = << >>

C4_Witness ==
    /\ rrfPc = "done"
    /\ rankings = << <<1, 2>>, <<2, 3>> >>
    /\ Len(sorted_results) = 3
    /\ sorted_results[1][1] = 2


(***************************************************************************)
(* Claims about MemoryService                                              *)
(***************************************************************************)
\* the history without a pinned leading system message
NonPinned(history) ==
    IF history # << >> /\ history[1].role = "system" THEN Tail(history)
    ELSE history

\* C5: after any sequence of add_message calls, get_history returns at most
\* max_history_messages entries, not counting a pinned leading system message.
C5_HistoryBound ==
    \A s \in Sessions, readOk \in BOOLEAN :
        Len(NonPinned(get_history(s, readOk))) <= max_history_messages

WritesAfterGoodRead(p) ==
    /\ mPc[p] = "write"
    /\ ~mReadFailed[p]
    /\ mCleared = NoClear

\* C23: overlapping add_message calls lose no update: whenever an
\* add_message whose read worked writes the history of its session, the
\* history written is the one the store holds at that moment with the new
\* message appended and the bound applied, so that the messages other calls
\* have written since its read are still there.
C23_NoLostUpdate ==
    [][\A p \in Callers :
          (WritesAfterGoodRead(p) /\ mPc'[p] = "idle" /\ store' # store) =>
              store'[mArg[p].session_id].history =
                  Trim(Append(store[mArg[p].session_id].history,
                              [role |-> mArg[p].role,
                               content |-> mArg[p].content]))]_vars

\* the caller's add_message or add_messages is between its read and its write
Writing(p) == mPc[p] \in {"write", "write_many"}

\* the list the caller's call has after its append or extend, before the bound
Extended(p) ==
    IF mPc[p] = "write"
    THEN Append(mHistory[p], [role |-> mArg[p].role, content |-> mArg[p].content])
    ELSE mHistory[p] \o mMessages[p]

\* short is the end of long: its entries are the last ones of long, in order
IsEndOf(short, long) ==
    /\ Len(short) <= Len(long)
    /\ short = SubSeq(long, Len(long) - Len(short) + 1, Len(long))

\* C26: whenever add_message or add_messages writes a history shorter than
\* the list it had after the append, the entries written after a pinned
\* leading system message are the last entries of that list in their order,
\* max_history_messages of them, and a system message that led the list
\* leads the written history.
C26_TrimKeepsNewest ==
    [][\A p \in Callers :
          (Writing(p) /\ mPc'[p] = "idle" /\ store' # store
              /\ Len(store'[mArg[p].session_id].history) < Len(Extended(p))) =>
              LET written == store'[mArg[p].session_id].history
                  pinned == Extended(p)[1].role = "system"
              IN  /\ pinned => written[1] = Extended(p)[1]
                  /\ IsEndOf(IF pinned THEN Tail(written) ELSE written,
                             Extended(p))
                  /\ Len(IF pinned THEN Tail(written) ELSE written)
                        = max_history_messages]_vars

\* the last write dropped entries: the session holds the system message of
\* the first call in front of the messages of the fourth and fifth call
C26_Witness ==
    /\ mTrimmed
    /\ store["s1"].present
    /\ Len(store["s1"].history) = 3
    /\ store["s1"].history[1] = [role |-> "system", content |-> 1]
    /\ store["s1"].history[2].content = 4
    /\ store["s1"].history[3].content = 5

\* the messages the caller's call adds
NewMessages(p) ==
    IF mPc[p] = "write"
    THEN <<[role |-> mArg[p].role, content |-> mArg[p].content]>>
    ELSE mMessages[p]

\* C29: add_message and add_messages remove stored messages only by the
\* bound of the history: when the read of the existing history failed and
\* the write that follows succeeds, the history written is the stored one
\* with the new messages added and the bound applied, not one that holds
\* the new messages only.
C29_FailedReadKeepsHistory ==
    [][\A p \in Callers :
          (Writing(p) /\ mReadFailed[p] /\ mPc'[p] = "idle" /\ store' # store) =>
              store'[mArg[p].session_id].history =
                  Trim(store[mArg[p].session_id].history \o NewMessages(p))]_vars

(***************************************************************************)
(* Claims about LLMBatcher                                                 *)
(***************************************************************************)
\* the caller of request r has returned
Returned(r) == \A c \in BatchCallers : cReq[c] # r

\* what determine_relevance_days returned for request r
ReturnOf(r) ==
    CASE reqs[r].fut = "result" -> [kind |-> "value", value |-> reqs[r].value]
      [] reqs[r].fut = "cancelled" -> [kind |-> "value", value |-> TimeoutValue]
      [] OTHER -> [kind |-> "raised", value |-> NoValue]

\* the batch of request r has been processed
Processed(r) ==
    /\ \A i \in 1..Len(queue) : queue[i] # r
    /\ \A i \in 1..Len(batch) : batch[i] # r

\* C6 as stated: of two calls with the same text and provider, the second
\* issued while the first is unresolved, only one leads to an LLM call, and
\* both return the same value.
C6_OneCallForBoth ==
    \A r2 \in 1..Len(reqs) : \A r1 \in reqs[r2].overlap :
        /\ ~(reqs[r1].called /\ reqs[r2].called)
        /\ (Returned(r1) /\ Returned(r2)) => ReturnOf(r1) = ReturnOf(r2)

\* C6 as amended: of two such calls the second misses the cache and is a
\* request of its own, and each of the two requests has had its own LLM call
\* once its batch has been processed, unless get_llm failed for its provider.
C6_OneCallEach ==
    \A r2 \in 1..Len(reqs) : \A r1 \in reqs[r2].overlap :
        /\ r1 < r2
        /\ reqs[r1].key = reqs[r2].key
        /\ \A r \in {r1, r2} :
              (Processed(r) /\ ~reqs[r].failed) => reqs[r].called

C6_Witness ==
    \E r2 \in 1..Len(reqs) : \E r1 \in reqs[r2].overlap :
        /\ reqs[r1].called /\ reqs[r2].called
        /\ Processed(r1) /\ Processed(r2)
        /\ Returned(r1) /\ Returned(r2)
        /\ reqs[r1].fut = "result" /\ reqs[r2].fut = "result"
        /\ ReturnOf(r1) # ReturnOf(r2)

\* an insertion of a key that is not cached, into a full cache
InsertsNewKeyWhenFull ==
    /\ Len(insertLog') = Len(insertLog) + 1
    /\ insertLog'[Len(insertLog')] \notin CachedKeys
    /\ Len(cache) = max_cache_size

\* C7: the cache never holds more than max_cache_size entries; the insertion
\* of a new key into a full cache evicts the entry inserted earliest and
\* nothing but an insertion changes the cache (a hit does not); once
\* max_cache_size + 1 distinct keys have been inserted, the first of them is
\* a miss and the others are hits.
C7_FifoCache ==
    /\ [](Len(cache) <= max_cache_size)
    /\ [](\A i, j \in 1..Len(cache) : i < j => cache[i].stamp < cache[j].stamp)
    /\ []((Len(insertLog) = max_cache_size + 1 /\ NoRepeats(insertLog)) =>
            CachedKeys = {insertLog[i] : i \in 2..(max_cache_size + 1)})
    /\ [][InsertsNewKeyWhenFull =>
            /\ \A i \in 1..Len(cache) : cache[1].stamp <= cache[i].stamp
            /\ cache' = Append(Tail(cache), cache'[Len(cache')])
            /\ cache'[Len(cache')].key = insertLog'[Len(insertLog')]]_vars
    /\ [][cache' # cache => insertLog' # insertLog]_vars

C7_Witness ==
    /\ Len(insertLog) = max_cache_size + 1
    /\ NoRepeats(insertLog)
    /\ Len(cache) = max_cache_size
    /\ insertLog[1] \notin CachedKeys

\* an insertion of a key that is cached already
InsertsCachedKey ==
    /\ Len(insertLog') = Len(insertLog) + 1
    /\ insertLog'[Len(insertLog')] \in CachedKeys

\* C30: the insertion of a key that is already in the cache evicts no
\* entry: the cache holds the same keys before and after it, also when it
\* is full.
C30_ReinsertEvictsNothing ==
    [][InsertsCachedKey => CachedKeys' = CachedKeys]_vars

\* C15: the future of every enqueued request is completed at most once in
\* every execution, and exactly once after its batch has been processed: by
\* a result, or by an error (the exception of a failed provider lookup, or
\* the cancellation by which wait_for ends the wait of a caller that timed
\* out), never by both -- a request whose caller has timed out or whose
\* partition failed is not completed a second time by its batch.
C15_CompletedOnce ==
    \A r \in 1..Len(reqs) :
        /\ reqs[r].completions <= 1
        /\ reqs[r].completions = 1 <=> reqs[r].fut # "pending"
        /\ reqs[r].fut = "result" => reqs[r].value # NoValue
        /\ reqs[r].fut # "result" => reqs[r].value = NoValue
        /\ Processed(r) => reqs[r].completions = 1
        /\ (Processed(r) /\ reqs[r].failed) => reqs[r].fut \in {"exception", "cancelled"}

\* a request whose caller timed out had its LLM call return afterwards, and
\* its batch has been processed
C15_Witness ==
    \E r \in 1..Len(reqs) :
        /\ reqs[r].fut = "cancelled"
        /\ reqs[r].outcome \in Responses
        /\ Processed(r)
        /\ \E q \in 1..Len(reqs) : reqs[q].failed /\ reqs[q].fut = "exception"

\* C16: an entry is added to the cache only for a request whose LLM call
\* succeeded: the default value of a request whose LLM call raised, and the
\* default value of a timed-out request, are never cached.
C16_CacheOnlyOnSuccess ==
    \A i \in 1..Len(cache) : cache[i].value \notin {ErrorValue, TimeoutValue}

\* what _process_single_request gives the future of a request whose LLM call
\* ended with the given outcome
OwnValue(outcome) ==
    IF outcome = "raised" THEN ErrorValue
    ELSE [days |-> ParseDays(outcome), raw |-> outcome]

\* C17: within one batch the failure of one request's LLM call changes only
\* that request's outcome: every request whose future has a result has the
\* result of its own call, and every request of a processed batch whose
\* provider could be looked up has had its own call.
C17_FailureIsolated ==
    \A r \in 1..Len(reqs) :
        /\ reqs[r].fut = "result" =>
              /\ reqs[r].outcome # "no call"
              /\ reqs[r].value = OwnValue(reqs[r].outcome)
        /\ (Processed(r) /\ ~reqs[r].failed) =>
              /\ reqs[r].called
              /\ reqs[r].outcome # "no call"
              /\ reqs[r].fut \in {"result", "cancelled"}

\* two requests of one provider were processed in one batch: the LLM call of
\* one raised and the other has the value of its own answer
C17_Witness ==
    \E r1, r2 \in 1..Len(reqs) :
        /\ r1 # r2
        /\ reqs[r1].key[1] = reqs[r2].key[1]
        /\ Processed(r1) /\ Processed(r2)
        /\ reqs[r1].outcome = "raised" /\ reqs[r1].value = ErrorValue
        /\ reqs[r2].outcome = "14 days" /\ reqs[r2].fut = "result"
        /\ reqs[r2].value = [days |-> 14, raw |-> "14 days"]

\* request r was put on the queue
Enqueued(r) == r <= Len(reqs)

\* request r was taken from the queue into a batch and its future is done
CollectedAndResolved(r) ==
    /\ Enqueued(r)
    /\ \A i \in 1..Len(queue) : queue[i] # r
    /\ reqs[r].fut # "pending"

\* C27: while the batcher runs and every LLM call returns or raises in the
\* end, every request put on the queue is eventually taken into a batch and
\* its future completed, also the requests that arrive after a batch in
\* which a provider lookup or an LLM call raised.
C27_EveryRequestResolved ==
    \A r \in 1..MaxRequests : Enqueued(r) ~> CollectedAndResolved(r)

\* the LLM call of the first request raised and a provider lookup failed in
\* an earlier batch; the third request is in the batch being processed and
\* its future has its result
C27_Witness ==
    /\ Len(reqs) = 3
    /\ reqs[1].outcome = "raised"
    /\ reqs[2].failed
    /\ bPc = "process"
    /\ batch = <<3>>
    /\ reqs[3].fut = "result"
    /\ CollectedAndResolved(3)

(***************************************************************************)
(* Claims about GenerationService.generate and its HTTP handler            *)
(***************************************************************************)
\* the request has been answered and generate returned an answer of the
\* generation model
GenerationSucceeded ==
    gPc = "handled" /\ gErr = "None" /\ answer # "None"

\* C8: a successful generate returns the seven components the handler of
\* /generation/generate destructures, so that the handler answers a
\* successful generation with a success response, not with a 400 or a 500.
C8_SuccessAnswered ==
    GenerationSucceeded => (Len(gRet) = 7 /\ http = 200)

\* a retrieved candidate that validation keeps: a score that is not below
\* the minimum and a text of at least the minimum length once stripped
SurvivesValidation(doc) ==
    doc.score >= min_score /\ Len(Strip(Chars(doc.text))) >= min_text_length

\* the retriever answered, the relevance checks are over, and no candidate
\* is left: none was returned, or none survives validation, or all that do
\* were judged not relevant
NoCandidateLeft ==
    /\ searched
    /\ gPc # "relevance"
    /\ \/ \A i \in 1..Len(raw_documents) : ~SurvivesValidation(raw_documents[i])
       \/ \A i \in 1..Len(relevance_results) : relevance_results[i] = "False"

\* C9: when retrieval returns no candidate, or none survives validation, or
\* none survives relevance filtering, generate ends in the rejected outcome:
\* it returns the fixed answer with empty source ids and metadatas, raises
\* nothing, never calls the generation model and writes nothing to the
\* session store.
C9_RejectedOutcome ==
    NoCandidateLeft =>
        /\ gPc \in {"returned", "handled"}
        /\ gRet # << >>
        /\ gRet[1] = error_message
        /\ gRet[2] = << >>
        /\ gRet[3] = << >>
        /\ gErr = "None"
        /\ gCalls.generation = 0
        /\ gCalls.memory = 0
        /\ answer = "None"
        /\ store = store0

\* a request of a session that already has a history is rejected after the
\* relevance checks of two validated candidates
C9_Witness ==
    /\ gPc = "returned"
    /\ Len(validated_documents) = 2
    /\ \A i \in 1..2 : relevance_results[i] = "False"
    /\ gRet = RejectedReturn
    /\ gRequest.session_id = "s1"
    /\ store["s1"].present
    /\ store["s1"].history # << >>

\* C10: when the routing agent's LLM call raises, the routing decision is
\* "retrieval needed": generate goes on to reformulation and retrieval, and
\* an error that leaves generate afterwards comes from the search or from
\* the generation model, never from the routing agent.
C10_RoutingFailsOpen ==
    routeOutcome = "raised" =>
        /\ use_retriever
        /\ gPc # "reformulate" => gCalls.reformulation = 1
        /\ gPc \notin {"reformulate", "retrieve"} => gCalls.search = 1
        /\ gPc = "raised" => gErr \in SearchErrors \cup {"E_llm"}

\* the routing agent's call raised and the request went through the search
\* to a generated answer
C10_Witness ==
    /\ routeOutcome = "raised"
    /\ gPc = "returned"
    /\ gCalls.reformulation = 1
    /\ gCalls.search = 1
    /\ answer # "None"

RelevanceFiltered == relevance_outcomes # << >> /\ gPc # "relevance"

\* the check of a document answered, and the answer does not say yes
AnsweredNotRelevant(check) ==
    /\ check.outcome \notin {"pending", "raise", "client_error"}
    /\ ~SaysYes(check.outcome)

\* the indices of the validated documents whose own check did not answer
\* "not relevant"
KeptIndices ==
    {i \in 1..Len(validated_documents) :
        ~AnsweredNotRelevant(relevance_outcomes[i])}

\* C19: once the relevance filtering is over, one check was made for each
\* validated document and all of them have ended; a document is in the
\* context exactly when the check made for its own index answered yes or
\* raised, whatever the order in which the checks ended, and the documents
\* of the context are in the order they had in the validated list.
C19_FilteredByOwnCheck ==
    RelevanceFiltered =>
        /\ Len(relevance_outcomes) = Len(validated_documents)
        /\ gCalls.relevance = Len(validated_documents)
        /\ \A i \in 1..Len(validated_documents) :
               relevance_outcomes[i].outcome # "pending"
        /\ Len(context_documents) = Cardinality(KeptIndices)
        /\ \A i \in KeptIndices :
               context_documents[Cardinality({j \in KeptIndices : j <= i})]
                   = validated_documents[i]

\* two documents were checked; the check of the second one ended first and
\* raised, the check of the first one answered no: the context holds the
\* second document only
C19_Witness ==
    /\ RelevanceFiltered
    /\ Len(validated_documents) = 2
    /\ validated_documents[1] # validated_documents[2]
    /\ relevance_outcomes[1] = [outcome |-> "no", order |-> 2]
    /\ relevance_outcomes[2] = [outcome |-> "raise", order |-> 1]
    /\ context_documents = <<validated_documents[2]>>
    /\ gPc = "generate"

\* generate has returned a generated answer
GenerateAnswered ==
    /\ gPc \in {"returned", "handled"}
    /\ answer # "None"
    /\ gRet # << >>
    /\ gRet[1] = answer

\* the history of the request's session when the request arrived
HistoryBefore ==
    IF store0[gRequest.session_id].present
    THEN store0[gRequest.session_id].history ELSE << >>

\* the two messages of the turn: the request's query, then the answer
UserTurn == [role |-> "user", content |-> gRequest.query]
AssistantTurn == [role |-> "assistant", content |-> answer]

\* C20: when generate returns a generated answer for a request with a
\* session id and the commands of the session store worked, the history of
\* the session is the one the request found, with the user message holding
\* the request's query appended first and the assistant message holding the
\* answer appended second (each append followed by the trimming of the
\* history), so that it ends with these two messages in this order; two
\* add_message calls and one update_ttl call were made and the key has its
\* full TTL.  A request without session id makes no such call and leaves
\* the store as it found it.
C20_TurnPersisted ==
    GenerateAnswered =>
        IF gRequest.session_id = "None"
        THEN /\ store = store0
             /\ gCalls.memory = 0
             /\ gCalls.ttl = 0
        ELSE /\ gCalls.memory = 2
             /\ gCalls.ttl = 1
             /\ ~memoryFailed =>
                   LET history == store[gRequest.session_id].history
                       n == Len(history)
                   IN  /\ store[gRequest.session_id].present
                       /\ history = Trim(Append(Trim(Append(HistoryBefore,
                                                            UserTurn)),
                                                AssistantTurn))
                       /\ n >= 2
                       /\ history[n - 1] = UserTurn
                       /\ history[n] = AssistantTurn
                       /\ n = IF Len(HistoryBefore) + 2 > max_history_messages + 1
                              THEN max_history_messages
                              ELSE Len(HistoryBefore) + 2
                       /\ \A s \in DOMAIN store :
                              s # gRequest.session_id => store[s] = store0[s]
                       /\ ttl[gRequest.session_id] = session_ttl

\* a second request of a session went through the search with a
\* reformulated query to a generated answer: the session, whose key had
\* aged, holds the message it held before followed by the query and the
\* answer of this request, and its key has the full TTL again
C20_Witness ==
    /\ GenerateAnswered
    /\ gRequest.session_id = "s1"
    /\ ~memoryFailed
    /\ runs = 2
    /\ Len(HistoryBefore) = 1
    /\ reformOutcome = "returned"
    /\ reformulated_query # Chars(gRequest.query)
    /\ store["s1"].history = HistoryBefore \o <<UserTurn, AssistantTurn>>
    /\ gCalls.ttl = 1
    /\ ttl["s1"] = session_ttl

\* C21: when a command of the session store fails while generate persists
\* the turn (a read or a write of add_message, or the TTL refresh), generate
\* raises nothing and returns the generated answer with the ids and the
\* metadata of the context documents.
C21_PersistenceFailureSwallowed ==
    memoryFailed =>
        /\ gPc # "raised"
        /\ gErr = "None"
        /\ gPc \in {"returned", "handled"} =>
              /\ Len(gRet) = 6
              /\ gRet[1] = answer
              /\ answer # "None"
              /\ Len(gRet[2]) = Len(context_documents)
              /\ Len(gRet[3]) = Len(context_documents)
              /\ \A i \in 1..Len(context_documents) :
                     /\ gRet[2][i] = context_documents[i].doc_id
                     /\ gRet[3][i] = context_documents[i].metadata

\* both writes and the TTL refresh of a run with search failed: the store is
\* as the request found it and generate returned the answer with a source
C21_Witness ==
    /\ memoryFailed
    /\ gPc = "returned"
    /\ gCalls.memory = 2
    /\ gCalls.ttl = 1
    /\ store = store0
    /\ gRet # << >>
    /\ gRet[1] = answer
    /\ Len(gRet[2]) >= 1

\* the routing agent answered, and its answer was not a yes
RoutedAway == routeOutcome = "returned" /\ ~use_retriever

\* C22: when the routing agent decides that no retrieval is needed, generate
\* makes no reformulation call, no search and no relevance check; the prompt
\* it builds carries the query and no document, with the system prompt for
\* the case without retriever; what it returns has empty lists of source
\* ids and metadata; and for a request with a session id whose store
\* commands worked the history ends with the query and the answer.
C22_DirectGeneration ==
    RoutedAway =>
        /\ gCalls.reformulation = 0
        /\ gCalls.search = 0
        /\ gCalls.relevance = 0
        /\ ~searched
        /\ context_documents = << >>
        /\ gPc \notin {"reformulate", "retrieve", "relevance"}
        /\ prompt # NoPrompt =>
              /\ prompt.query = gRequest.query
              /\ prompt.context = << >>
              /\ prompt.system = "SYSTEM_PROMPT_WITHOUT_RETRIEVER"
        /\ GenerateAnswered =>
              /\ prompt # NoPrompt
              /\ gRet[2] = << >>
              /\ gRet[3] = << >>
              /\ gRet[4] = "None"
              /\ (gRequest.session_id # "None" /\ ~memoryFailed) =>
                    LET history == store[gRequest.session_id].history
                        n == Len(history)
                    IN  /\ gCalls.memory = 2
                        /\ n >= 2
                        /\ history[n - 1] = UserTurn
                        /\ history[n] = AssistantTurn

\* the routing agent said no for a request with a session id: generate
\* answered without search and the session holds the turn
C22_Witness ==
    /\ RoutedAway
    /\ GenerateAnswered
    /\ gRequest.session_id = "s1"
    /\ ~memoryFailed
    /\ gCalls.generation = 1
    /\ prompt.system = "SYSTEM_PROMPT_WITHOUT_RETRIEVER"
    /\ gRet[2] = << >>
    /\ store["s1"].history = HistoryBefore \o <<UserTurn, AssistantTurn>>

\* the stage took place in the run, and i is its place
StageAt(stage, i) == i \in 1..Len(gStages) /\ gStages[i] = stage

\* C25: in a run with retrieval every reranker pass comes after the
\* validation and the relevance filtering of the candidates, and when the
\* prompt is built over reranked candidates the pass took place between the
\* filtering and the building of the prompt.
C25_RerankAfterFilter ==
    /\ \A i \in 1..Len(gStages) :
           StageAt("rerank", i) =>
               /\ \E j \in 1..(i - 1) : StageAt("validate", j)
               /\ \E j \in 1..(i - 1) : StageAt("filter", j)
    /\ (UseRerank(gRequest.use_rerank) /\ context_documents # << >>
           /\ prompt # NoPrompt) =>
          \E i, j, l \in 1..Len(gStages) :
              /\ j < i /\ i < l
              /\ StageAt("filter", j)
              /\ StageAt("rerank", i)
              /\ StageAt("build_prompt", l)

(***************************************************************************)
(* Claims about VectorSearch and RetrieverService                          *)
(***************************************************************************)
\* the arguments of the add_documents call break one of the three rules
InvalidAddArguments ==
    /\ vOp = "add"
    /\ \/ vArgs.idsLen # vArgs.documentsLen
       \/ vArgs.metadatasLen # vArgs.documentsLen
       \/ ~vArgs.idsDistinct

\* C12: add_documents fails with a validation error, before any upsert is
\* sent to the store, whenever the number of ids differs from the number of
\* documents, the number of metadatas differs from the number of documents,
\* or ids contains a duplicate; no document of such a call is stored.
C12_InvalidAddRejected ==
    InvalidAddArguments =>
        /\ vPc = "raised"
        /\ vErr = "ValueError"
        /\ remoteCalls.upsert = 0
        /\ qdrant = qdrant0

\* the query of the search call is empty or blank, or its top_k is below 1
InvalidSearchArguments ==
    /\ vOp = "search"
    /\ \/ BlankChars(Chars(vArgs.query))
       \/ vTopKGiven.given /\ vTopKGiven.value < 1

\* C13: a search whose query is empty or blank, or whose top_k is below 1
\* (0 included), ends in a local validation error and issues no call to the
\* remote store.
C13_InvalidSearchRejected ==
    InvalidSearchArguments =>
        /\ vPc = "raised"
        /\ vErr = "ValueError"
        /\ remoteCalls.query = 0

\* every attempt of the search's call to the store failed with a retryable
\* error and no attempt is left
SearchRetriesExhausted ==
    /\ vOp = "search"
    /\ Len(vFailures) = qdrant_max_retries
    /\ \A i \in 1..Len(vFailures) : is_retryable_error(vFailures[i])

\* C14 as stated: when the search call to the store keeps failing until the
\* retries are exhausted, search returns an empty result set to its caller
\* instead of raising.
C14_ExhaustedReturnsEmpty ==
    SearchRetriesExhausted => (vPc = "done" /\ vResult = << >> /\ vErr = "None")

\* C14: when the search call to the store keeps failing until the retries
\* are exhausted, search raises the last failure to its caller and returns
\* nothing.
C14_ExhaustedRaises ==
    SearchRetriesExhausted =>
        /\ vPc = "raised"
        /\ vErr = vFailures[Len(vFailures)]
        /\ vResult = << >>
        /\ remoteCalls.query = qdrant_max_retries

\* a hybrid search has used up its retries
C14_Witness ==
    /\ SearchRetriesExhausted
    /\ vPc = "raised"
    /\ remoteCalls.query = qdrant_max_retries
    /\ vArgs.use_rerank

====
